---- MODULE Spec2Model ----
(***************************************************************************)
(* The immutable SQL query builder (SqlQueryAdapter), its validators and   *)
(* its statement assembly.  Go strings are TLA+ strings (ASCII only, so a  *)
(* byte is a character); a Go error is the name of its sentinel, "nil"     *)
(* for no error.                                                           *)
(***************************************************************************)
EXTENDS Integers, Sequences, FiniteSets, TLC

(***************************************************************************)
(* strings, as the standard library functions the code calls               *)
(***************************************************************************)
At(s, i) == SubSeq(s, i, i)

MinOf(S) == CHOOSE x \in S : \A y \in S : x <= y

MaxOf(S) == CHOOSE x \in S : \A y \in S : x >= y

LowerChars == "abcdefghijklmnopqrstuvwxyz"

UpperChars == "ABCDEFGHIJKLMNOPQRSTUVWXYZ"

DigitChars == "0123456789"

CharsOf(s) == {At(s, i) : i \in 1..Len(s)}

LowerSet == CharsOf(LowerChars)

UpperSet == CharsOf(UpperChars)

DigitSet == CharsOf(DigitChars)

IsLower(c) == c \in LowerSet

IsUpper(c) == c \in UpperSet

IsDigit(c) == c \in DigitSet

SpaceSet == {" ", "\t", "\n", "\r", "\f"}

\* unicode.IsSpace / the regexp class \s, on ASCII
IsSpace(c) == c \in SpaceSet

UpperMap ==
    [c \in LowerSet |->
        At(UpperChars, CHOOSE i \in 1..Len(LowerChars) : At(LowerChars, i) = c)]

UpperChar(c) == IF IsLower(c) THEN UpperMap[c] ELSE c

\* the characters lo..hi of s in upper case (halved, to keep the evaluation
\* shallow on long texts)
RECURSIVE ToUpperRange(_, _, _)
ToUpperRange(s, lo, hi) ==
    IF lo > hi THEN ""
    ELSE IF lo = hi THEN UpperChar(At(s, lo))
    ELSE LET mid == (lo + hi) \div 2
         IN  ToUpperRange(s, lo, mid) \o ToUpperRange(s, mid + 1, hi)

\* strings.ToUpper
ToUpper(s) == ToUpperRange(s, 1, Len(s))

\* strings.Contains
Contains(s, sub) ==
    \E i \in 1..(Len(s) - Len(sub) + 1) : SubSeq(s, i, i + Len(sub) - 1) = sub

\* strings.TrimSpace
TrimSpace(s) ==
    LET keep == {i \in 1..Len(s) : ~IsSpace(At(s, i))}
    IN  IF keep = {} THEN "" ELSE SubSeq(s, MinOf(keep), MaxOf(keep))

\* strings.Count(s, c) for a one-character c
CountStr(s, c) == Cardinality({i \in 1..Len(s) : At(s, i) = c})

\* strings.Index(s, c) for a one-character c, 1-based; 0 when absent
IndexStr(s, c) ==
    LET hits == {i \in 1..Len(s) : At(s, i) = c}
    IN  IF hits = {} THEN 0 ELSE MinOf(hits)

\* strings.Replace(s, old, new, 1) for a one-character old
ReplaceFirst(s, old, new) ==
    LET i == IndexStr(s, old)
    IN  IF i = 0 THEN s
        ELSE SubSeq(s, 1, i - 1) \o new \o SubSeq(s, i + 1, Len(s))

RECURSIVE JoinFrom(_, _, _)
JoinFrom(elems, sep, i) ==
    IF i > Len(elems) THEN ""
    ELSE IF i = Len(elems) THEN elems[i]
    ELSE elems[i] \o sep \o JoinFrom(elems, sep, i + 1)

\* strings.Join
JoinStr(elems, sep) == JoinFrom(elems, sep, 1)

RECURSIVE SplitFrom(_, _, _)
SplitFrom(s, sep, from) ==
    LET hits == {i \in from..Len(s) : At(s, i) = sep}
    IN  IF hits = {} THEN <<SubSeq(s, from, Len(s))>>
        ELSE <<SubSeq(s, from, MinOf(hits) - 1)>>
                 \o SplitFrom(s, sep, MinOf(hits) + 1)

\* strings.Split(s, sep) for a one-character sep
Split(s, sep) == SplitFrom(s, sep, 1)

\* fmt.Sprint of an int
Itoa(n) == ToString(n)

(***************************************************************************)
(* regular expressions: a pattern is run from a set of positions (the      *)
(* number of characters consumed so far) to the set of positions it can    *)
(* end at, so alternatives and backtracking are all followed               *)
(***************************************************************************)
ReLit(s, P, lit) ==
    {p + Len(lit) : p \in {p \in P : /\ p + Len(lit) <= Len(s)
                                     /\ SubSeq(s, p + 1, p + Len(lit)) = lit}}

\* \s*
ReSpaces0(s, P) ==
    {q \in 0..Len(s) : \E p \in P : p <= q /\ \A i \in (p + 1)..q : IsSpace(At(s, i))}

\* \s+
ReSpaces1(s, P) ==
    {q \in 0..Len(s) : \E p \in P : p < q /\ \A i \in (p + 1)..q : IsSpace(At(s, i))}

IdentStartSet == LowerSet \cup UpperSet \cup {"_"}

IdentCharSet == IdentStartSet \cup DigitSet

IsIdentStart(c) == c \in IdentStartSet

IsIdentChar(c) == c \in IdentCharSet

\* [a-zA-Z_][a-zA-Z0-9_]*
ReIdent(s, P) ==
    {q \in 0..Len(s) : \E p \in P :
        /\ p < q
        /\ IsIdentStart(At(s, p + 1))
        /\ \A i \in (p + 2)..q : IsIdentChar(At(s, i))}

\* .+ (the dot matches no line break)
ReAny1(s, P) ==
    {q \in 0..Len(s) : \E p \in P : p < q /\ \A i \in (p + 1)..q : At(s, i) # "\n"}

\* [a-zA-Z_][a-zA-Z0-9_]*(\.[a-zA-Z_][a-zA-Z0-9_]*)?\s*(ASC|DESC)?
ReOrderTerm(s, P) ==
    LET col  == ReIdent(s, P)
        qual == col \cup ReIdent(s, ReLit(s, col, "."))
        sp   == ReSpaces0(s, qual)
    IN  sp \cup ReLit(s, sp, "ASC") \cup ReLit(s, sp, "DESC")

\* (\s*,\s*<term>)*
RECURSIVE ReOrderMore(_, _)
ReOrderMore(s, P) ==
    LET step == ReOrderTerm(s, ReSpaces0(s, ReLit(s, ReSpaces0(s, P), ",")))
    IN  IF step \subseteq P THEN P ELSE ReOrderMore(s, P \cup step)

\* sqlIdentifierPattern: ^[a-zA-Z_][a-zA-Z0-9_]*$
sqlIdentifierPattern(s) == Len(s) \in ReIdent(s, {0})

\* orderByPattern
orderByPattern(s) == Len(s) \in ReOrderMore(s, ReOrderTerm(s, {0}))

\* joinPattern:
\* ^(INNER|LEFT|RIGHT|FULL\s+OUTER)?\s*JOIN\s+ident(\s+AS\s+ident)?\s+ON\s+.+$
joinPattern(s) ==
    LET kind  == {0} \cup ReLit(s, {0}, "INNER") \cup ReLit(s, {0}, "LEFT")
                     \cup ReLit(s, {0}, "RIGHT")
                     \cup ReLit(s, ReSpaces1(s, ReLit(s, {0}, "FULL")), "OUTER")
        join  == ReLit(s, ReSpaces0(s, kind), "JOIN")
        tbl   == ReIdent(s, ReSpaces1(s, join))
        alias == tbl \cup ReIdent(s, ReSpaces1(s, ReLit(s, ReSpaces1(s, tbl), "AS")))
        on    == ReLit(s, ReSpaces1(s, alias), "ON")
    IN  Len(s) \in ReAny1(s, ReSpaces1(s, on))

\* columnNamePattern: ^[a-zA-Z0-9_]+$
columnNamePattern(s) == Len(s) > 0 /\ \A i \in 1..Len(s) : IsIdentChar(At(s, i))

(***************************************************************************)
(* the validators and sanitizers                                           *)
(***************************************************************************)
maxIdentifierLen == 64

maxOrderByLen == 256

maxJoinClauseLen == 512

maxWhereClauseLen == 1024

commonSuspiciousPatterns ==
    <<"--", "/*", "*/", ";", "UNION", "DELETE", "DROP", "INSERT", "UPDATE",
      "EXEC", "EXECUTE", "DECLARE", "SELECT", "CREATE", "ALTER", "TRUNCATE">>

databaseMetadataPatterns == <<"INFORMATION_SCHEMA", "SYS.", "MYSQL.", "PG_">>

validateSuspiciousPatterns(input, patterns) ==
    LET upperInput == ToUpper(input)
    IN  IF \E i \in 1..Len(patterns) : Contains(upperInput, patterns[i])
        THEN "ErrSuspiciousPattern" ELSE "nil"

validateLength(input, maxLen, errType) ==
    IF Len(input) > maxLen THEN errType ELSE "nil"

validateOrderByFormat(orderBy) ==
    IF ~orderByPattern(TrimSpace(orderBy)) THEN "ErrInvalidOrderBy" ELSE "nil"

ValidateOrderBy(orderBy) ==
    IF Len(orderBy) = 0 THEN "nil"
    ELSE IF validateLength(orderBy, maxOrderByLen, "ErrInvalidOrderBy") # "nil"
    THEN validateLength(orderBy, maxOrderByLen, "ErrInvalidOrderBy")
    ELSE IF validateSuspiciousPatterns(orderBy, commonSuspiciousPatterns) # "nil"
    THEN validateSuspiciousPatterns(orderBy, commonSuspiciousPatterns)
    ELSE validateOrderByFormat(orderBy)

validateJoinFormat(joinClause) ==
    IF ~joinPattern(TrimSpace(joinClause)) THEN "ErrInvalidJoinClause" ELSE "nil"

ValidateJoinClause(joinClause) ==
    IF Len(joinClause) = 0 THEN "nil"
    ELSE IF validateLength(joinClause, maxJoinClauseLen, "ErrInvalidJoinClause") # "nil"
    THEN validateLength(joinClause, maxJoinClauseLen, "ErrInvalidJoinClause")
    ELSE IF validateSuspiciousPatterns(joinClause, commonSuspiciousPatterns) # "nil"
    THEN validateSuspiciousPatterns(joinClause, commonSuspiciousPatterns)
    ELSE validateJoinFormat(joinClause)

ValidateColumnName(columnName) ==
    IF Len(columnName) = 0 THEN "ErrInvalidColumnName"
    ELSE IF Len(columnName) > maxIdentifierLen THEN "ErrIdentifierTooLong"
    ELSE IF ~columnNamePattern(columnName) THEN "ErrInvalidColumnName"
    ELSE "nil"

\* a ValidateIdentifier without the length check
ValidateIdentifierAnyLength(identifier) ==
    IF Len(identifier) = 0 THEN "ErrInvalidIdentifier"
    ELSE IF ~sqlIdentifierPattern(identifier) THEN "ErrInvalidIdentifier"
    ELSE "nil"

ValidateIdentifier(identifier) ==
    IF Len(identifier) = 0 THEN "ErrInvalidIdentifier"
    ELSE IF Len(identifier) > maxIdentifierLen THEN "ErrIdentifierTooLong"
    ELSE IF ~sqlIdentifierPattern(identifier) THEN "ErrInvalidIdentifier"
    ELSE "nil"

\* the first index whose element fails, 0 when none does
FirstFailing(errs) ==
    LET bad == {i \in 1..Len(errs) : errs[i] # "nil"}
    IN  IF bad = {} THEN 0 ELSE MinOf(bad)

\* returns (sanitized, err); a nil slice is the empty sequence
SanitizeColumnNames(columns) ==
    LET errs == [i \in 1..Len(columns) |-> ValidateColumnName(TrimSpace(columns[i]))]
        bad  == FirstFailing(errs)
    IN  IF bad # 0
        THEN [val |-> <<>>, err |-> errs[bad]]
        ELSE [val |-> [i \in 1..Len(columns) |-> TrimSpace(columns[i])], err |-> "nil"]

ValidateWhereClause(whereClause) ==
    IF validateLength(whereClause, maxWhereClauseLen, "ErrSuspiciousPattern") # "nil"
    THEN validateLength(whereClause, maxWhereClauseLen, "ErrSuspiciousPattern")
    ELSE validateSuspiciousPatterns(whereClause,
                                    commonSuspiciousPatterns \o databaseMetadataPatterns)

\* returns (field, err)
\* a validateTableColumnFormat that takes any number of segments
validateTableColumnFormatAnySegments(field) ==
    LET parts == Split(field, ".")
        errs  == [i \in 1..Len(parts) |-> ValidateIdentifier(parts[i])]
        bad   == FirstFailing(errs)
    IN  IF bad # 0 THEN [val |-> "", err |-> errs[bad]]
        ELSE [val |-> field, err |-> "nil"]

validateTableColumnFormat(field) ==
    LET parts == Split(field, ".")
        errs  == [i \in 1..Len(parts) |-> ValidateIdentifier(parts[i])]
        bad   == FirstFailing(errs)
    IN  IF Len(parts) > 2 THEN [val |-> "", err |-> "ErrInvalidColumnName"]
        ELSE IF bad # 0 THEN [val |-> "", err |-> errs[bad]]
        ELSE [val |-> field, err |-> "nil"]

sanitizeSelectField(field) ==
    LET trimmed == TrimSpace(field)
    IN  IF trimmed = "*" THEN [val |-> trimmed, err |-> "nil"]
        ELSE validateTableColumnFormat(trimmed)

SanitizeSelectFields(fields) ==
    LET errs == [i \in 1..Len(fields) |-> sanitizeSelectField(fields[i]).err]
        bad  == FirstFailing(errs)
    IN  IF Len(fields) = 0 THEN [val |-> fields, err |-> "nil"]
        ELSE IF bad # 0 THEN [val |-> <<>>, err |-> errs[bad]]
        ELSE [val |-> [i \in 1..Len(fields) |-> sanitizeSelectField(fields[i]).val],
              err |-> "nil"]

ValidateHavingClause(having) ==
    LET errs == [i \in 1..Len(having) |-> ValidateWhereClause(having[i])]
        bad  == FirstFailing(errs)
    IN  IF bad # 0 THEN errs[bad] ELSE "nil"

(***************************************************************************)
(* values: a positional argument (Go's any) is a scalar or a slice of      *)
(* scalars; a *int is the empty sequence (nil) or <<n>>                    *)
(***************************************************************************)
Scalar(x) == [slice |-> FALSE, elems |-> <<x>>]

Slice(xs) == [slice |-> TRUE, elems |-> xs]

\* the nil interface value: the zero value of an unused array cell
NilArg == [slice |-> FALSE, elems |-> <<>>]

\* toString: a string condition is taken as it is
toString(v) == v

\* Tabler.TableName of the record types
TableName(model) ==
    CASE model = "User" -> "users"
      [] model = "Product" -> "products"

(***************************************************************************)
(* the adapters live in a heap and are held by pointer; havingArgs is a    *)
(* slice header (backing array, length) into the arrays of the heap,       *)
(* because clone does not copy it: a backing array can be shared           *)
(***************************************************************************)
FlavorMySQL == "FlavorMySQL"

FlavorPostgres == "FlavorPostgres"

detectFlavor(driverType) ==
    IF \/ Contains(driverType, "pq") \/ Contains(driverType, "pgx")
       \/ Contains(driverType, "postgres") \/ Contains(driverType, "stdlib")
    THEN FlavorPostgres ELSE FlavorMySQL

NilSlice == [arr |-> 0, len |-> 0]

NewSqlAdapter(driverType) ==
    [ctx |-> "Background", flavor |-> detectFlavor(driverType),
     table |-> "", fields |-> <<"*">>, groups |-> <<>>, havings |-> <<>>,
     havingArgs |-> NilSlice, joins |-> <<>>, joinArgs |-> <<>>, scopes |-> <<>>,
     wheres |-> <<>>, whereArgs |-> <<>>, orWheres |-> <<>>, orArgs |-> <<>>,
     orderBy |-> "", limit |-> <<>>, offset |-> <<>>, model |-> "nil"]

\* what a chain method returns: the heap after the call and the pointer
\* returned, or a panic
Ret(m, p) == [m |-> m, p |-> p, panic |-> FALSE]

Panic(m) == [m |-> m, p |-> 0, panic |-> TRUE]

Deref(m, p) == m.heap[p]

Store(m, p, b) == [m EXCEPT !.heap[p] = b]

\* cap(s) of a slice header
CapOf(m, hdr) == IF hdr.arr = 0 THEN 0 ELSE Len(m.arrays[hdr.arr])

\* the elements a slice header shows
View(m, hdr) == IF hdr.arr = 0 THEN <<>> ELSE SubSeq(m.arrays[hdr.arr], 1, hdr.len)

\* the capacity append gives a grown []any (runtime growslice, below 256
\* elements, where every size is a size class)
GrowCap(oldCap, newLen) == IF newLen > 2 * oldCap THEN newLen ELSE 2 * oldCap

\* append(s, args...) on a slice header: in place when the capacity allows,
\* into a new array otherwise; returns the heap and the new header
AppendArgs(m, hdr, args) ==
    LET newLen == hdr.len + Len(args)
        cap    == CapOf(m, hdr)
        newCap == GrowCap(cap, newLen)
    IN  IF Len(args) = 0 THEN [m |-> m, hdr |-> hdr]
        ELSE IF newLen <= cap
        THEN [m |-> [m EXCEPT !.arrays[hdr.arr] =
                        [i \in 1..cap |-> IF i > hdr.len /\ i <= newLen
                                          THEN args[i - hdr.len] ELSE @[i]]],
              hdr |-> [arr |-> hdr.arr, len |-> newLen]]
        ELSE [m |-> [m EXCEPT !.arrays = Append(@,
                        [i \in 1..newCap |-> IF i <= hdr.len THEN View(m, hdr)[i]
                                             ELSE IF i <= newLen THEN args[i - hdr.len]
                                             ELSE NilArg])],
              hdr |-> [arr |-> Len(m.arrays) + 1, len |-> newLen]]

\* a clone that hands out the receiver itself (cp := q)
cloneShared(m, q) == Ret(m, q)

\* clone: cp := *q, then fresh copies of fields, joins, joinArgs, wheres,
\* whereArgs, orWheres, orArgs and scopes (copies of values are the values);
\* groups, havings and havingArgs keep the receiver's slice headers
clone(m, q) ==
    LET src == Deref(m, q)
        cp  == [src EXCEPT !.fields = src.fields, !.joins = src.joins,
                           !.joinArgs = src.joinArgs, !.wheres = src.wheres,
                           !.whereArgs = src.whereArgs, !.orWheres = src.orWheres,
                           !.orArgs = src.orArgs, !.scopes = src.scopes,
                           !.model = src.model]
    IN  Ret([m EXCEPT !.heap = Append(@, cp)], Len(m.heap) + 1)

WithContext(m, q, ctx) ==
    LET c == clone(m, q)
    IN  Ret(Store(c.m, c.p, [Deref(c.m, c.p) EXCEPT !.ctx = ctx]), c.p)

\* m.TableName() on a nil Tabler is a nil dereference
UseModel(m, q, model) ==
    LET c == clone(m, q)
    IN  IF model = "nil" THEN Panic(c.m)
        ELSE Ret(Store(c.m, c.p, [Deref(c.m, c.p) EXCEPT !.model = model,
                                                        !.table = TableName(model)]),
                 c.p)

Model(m, q) == Deref(m, q).model

\* the loop of Where over its arguments: (condStr, finalArgs) after
\* arguments i..len(args)
RECURSIVE WhereArgsLoop(_, _, _, _)
WhereArgsLoop(condStr, finalArgs, args, i) ==
    IF i > Len(args) THEN [condStr |-> condStr, finalArgs |-> finalArgs]
    ELSE LET arg == args[i]
             n   == Len(arg.elems)
             placeholders == [k \in 1..n |-> "?"]
         IN  IF arg.slice
             THEN IF n = 0
                  THEN WhereArgsLoop("1=0", finalArgs, args, i + 1)
                  ELSE WhereArgsLoop(
                           ReplaceFirst(condStr, "?",
                                        "(" \o JoinStr(placeholders, ", ") \o ")"),
                           finalArgs \o [k \in 1..n |-> Scalar(arg.elems[k])],
                           args, i + 1)
             ELSE WhereArgsLoop(condStr, Append(finalArgs, arg), args, i + 1)

\* Where with a string condition
Where(m, q, cond, args) ==
    LET c   == clone(m, q)
        cp  == Deref(c.m, c.p)
        fin == WhereArgsLoop(toString(cond), <<>>, args, 1)
    IN  Ret(Store(c.m, c.p, [cp EXCEPT !.wheres = Append(@, fin.condStr),
                                       !.whereArgs = @ \o fin.finalArgs]), c.p)

\* the number of leading wheres of sub equal to those of the receiver
RECURSIVE CommonPrefix(_, _, _)
CommonPrefix(qWheres, subWheres, i) ==
    IF i <= Len(qWheres) /\ i <= Len(subWheres) /\ subWheres[i] = qWheres[i]
    THEN CommonPrefix(qWheres, subWheres, i + 1)
    ELSE i - 1

RECURSIVE SumCount(_, _, _)
SumCount(elems, n, c) ==
    IF n = 0 THEN 0 ELSE CountStr(elems[n], c) + SumCount(elems, n - 1, c)

Drop(seq, n) == SubSeq(seq, n + 1, Len(seq))

\* Where with another adapter as the condition
WhereSub(m, q, subPtr) ==
    LET c   == clone(m, q)
        cp  == Deref(c.m, c.p)
        rq  == Deref(m, q)
        sub == Deref(m, subPtr)
        strip == /\ sub.model = rq.model
                 /\ Len(rq.wheres) > 0
                 /\ Len(sub.wheres) >= Len(rq.wheres)
        common == IF strip THEN CommonPrefix(rq.wheres, sub.wheres, 1) ELSE 0
        argsToDrop == SumCount(rq.wheres, common, "?")
        subWheres == IF common > 0 THEN Drop(sub.wheres, common) ELSE sub.wheres
        subWhereArgs ==
            IF common > 0
            THEN IF argsToDrop <= Len(sub.whereArgs)
                 THEN Drop(sub.whereArgs, argsToDrop) ELSE <<>>
            ELSE sub.whereArgs
        sb == "("
              \o (IF Len(subWheres) > 0 THEN JoinStr(subWheres, " AND ") ELSE "")
              \o (IF Len(sub.orWheres) > 0
                  THEN (IF Len(subWheres) > 0 THEN " OR " ELSE "")
                       \o "(" \o JoinStr(sub.orWheres, " OR ") \o ")"
                  ELSE "")
              \o ")"
    IN  Ret(Store(c.m, c.p, [cp EXCEPT !.wheres = Append(@, sb),
                                       !.whereArgs = @ \o subWhereArgs \o sub.orArgs]),
            c.p)

Or(m, q, cond, args) ==
    LET c  == clone(m, q)
        cp == Deref(c.m, c.p)
    IN  Ret(Store(c.m, c.p, [cp EXCEPT !.orWheres = Append(@, toString(cond)),
                                       !.orArgs = @ \o args]), c.p)

Join(m, q, joinClause, args) ==
    IF ValidateJoinClause(joinClause) # "nil" THEN Ret(m, q)
    ELSE LET c  == clone(m, q)
             cp == Deref(c.m, c.p)
         IN  Ret(Store(c.m, c.p, [cp EXCEPT !.joins = Append(@, joinClause),
                                            !.joinArgs = @ \o args]), c.p)

Select(m, q, sel) ==
    LET san == SanitizeSelectFields(sel)
        c   == clone(m, q)
        cp  == Deref(c.m, c.p)
    IN  IF san.err # "nil" THEN Ret(m, q)
        ELSE IF Len(san.val) > 0
        THEN Ret(Store(c.m, c.p, [cp EXCEPT !.fields = san.val]), c.p)
        ELSE c

GroupBy(m, q, cols) ==
    LET san == SanitizeColumnNames(cols)
        c   == clone(m, q)
        cp  == Deref(c.m, c.p)
    IN  IF san.err # "nil" THEN Ret(m, q)
        ELSE IF Len(san.val) > 0
        THEN Ret(Store(c.m, c.p, [cp EXCEPT !.groups = san.val]), c.p)
        ELSE c

Having(m, q, cols, args) ==
    LET c   == clone(m, q)
        cp  == Deref(c.m, c.p)
        app == AppendArgs(c.m, cp.havingArgs, args)
    IN  IF ValidateHavingClause(cols) # "nil" THEN Ret(m, q)
        ELSE IF Len(cols) > 0
        THEN Ret(Store(app.m, c.p, [cp EXCEPT !.havings = cols,
                                              !.havingArgs = app.hdr]), c.p)
        ELSE c

Limit(m, q, l) ==
    LET c == clone(m, q)
    IN  Ret(Store(c.m, c.p, [Deref(c.m, c.p) EXCEPT !.limit = <<l>>]), c.p)

Offset(m, q, o) ==
    LET c == clone(m, q)
    IN  Ret(Store(c.m, c.p, [Deref(c.m, c.p) EXCEPT !.offset = <<o>>]), c.p)

\* an Order that stores the clause without validating it
OrderUnchecked(m, q, order) ==
    LET c == clone(m, q)
    IN  Ret(Store(c.m, c.p, [Deref(c.m, c.p) EXCEPT !.orderBy = order]), c.p)

Order(m, q, order) ==
    IF ValidateOrderBy(order) # "nil" THEN Ret(m, q)
    ELSE LET c == clone(m, q)
         IN  Ret(Store(c.m, c.p, [Deref(c.m, c.p) EXCEPT !.orderBy = order]), c.p)

Clone(m, q) == UseModel(m, q, Deref(m, q).model)

Driver(m, q) == Deref(m, q).flavor

SafeOrder(m, q, order) ==
    IF ValidateOrderBy(order) # "nil" THEN Ret(m, q) ELSE Order(m, q, order)

SafeJoin(m, q, joinClause, args) ==
    IF ValidateJoinClause(joinClause) # "nil" THEN Ret(m, q)
    ELSE Join(m, q, joinClause, args)

SafeSelect(m, q, selections) ==
    LET san == SanitizeSelectFields(selections)
    IN  IF san.err # "nil" THEN Ret(m, q) ELSE Select(m, q, san.val)

SafeGroupBy(m, q, groupbys) ==
    LET san == SanitizeColumnNames(groupbys)
    IN  IF san.err # "nil" THEN Ret(m, q) ELSE GroupBy(m, q, san.val)

SafeHaving(m, q, havings, args) ==
    IF ValidateHavingClause(havings) # "nil" THEN Ret(m, q)
    ELSE Having(m, q, havings, args)

UnsafeOrder(m, q, order) ==
    LET c == clone(m, q)
    IN  Ret(Store(c.m, c.p, [Deref(c.m, c.p) EXCEPT !.orderBy = order]), c.p)

UnsafeJoin(m, q, joinClause, args) ==
    LET c  == clone(m, q)
        cp == Deref(c.m, c.p)
    IN  Ret(Store(c.m, c.p, [cp EXCEPT !.joins = Append(@, joinClause),
                                       !.joinArgs = @ \o args]), c.p)

UnsafeSelect(m, q, selections) ==
    LET c == clone(m, q)
    IN  IF Len(selections) > 0
        THEN Ret(Store(c.m, c.p, [Deref(c.m, c.p) EXCEPT !.fields = selections]), c.p)
        ELSE c

UnsafeGroupBy(m, q, groupbys) ==
    LET c == clone(m, q)
    IN  IF Len(groupbys) > 0
        THEN Ret(Store(c.m, c.p, [Deref(c.m, c.p) EXCEPT !.groups = groupbys]), c.p)
        ELSE c

UnsafeHaving(m, q, havings, args) ==
    LET c   == clone(m, q)
        cp  == Deref(c.m, c.p)
        app == AppendArgs(c.m, cp.havingArgs, args)
    IN  IF Len(havings) > 0
        THEN Ret(Store(app.m, c.p, [cp EXCEPT !.havings = havings,
                                              !.havingArgs = app.hdr]), c.p)
        ELSE c

(***************************************************************************)
(* statement assembly                                                      *)
(***************************************************************************)
\* the rewrite loop of build over the characters lo..hi of sqlStr, entered
\* with idx markers already written: each '?' becomes $ and the next number
\* (the range is halved, to keep the evaluation shallow on long texts)
RECURSIVE NumberRange(_, _, _, _)
NumberRange(sqlStr, lo, hi, idx) ==
    IF lo > hi THEN ""
    ELSE IF lo = hi
    THEN (IF At(sqlStr, lo) = "?" THEN "$" \o Itoa(idx + 1) ELSE At(sqlStr, lo))
    ELSE LET mid == (lo + hi) \div 2
         IN  NumberRange(sqlStr, lo, mid, idx)
             \o NumberRange(sqlStr, mid + 1, hi,
                            idx + CountStr(SubSeq(sqlStr, lo, mid), "?"))

NumberMarkers(sqlStr) == NumberRange(sqlStr, 1, Len(sqlStr), 0)

\* build, the head: SELECT <fields> FROM <table>, or the count projection
selectClause(q, count) ==
    (IF count THEN "SELECT COUNT(1) FROM "
     ELSE "SELECT " \o JoinStr(q.fields, ", ") \o " FROM ")
    \o q.table

\* build, the joins
joinsClause(q) ==
    IF Len(q.joins) > 0 THEN " " \o JoinStr(q.joins, " ") ELSE ""

\* build, the WHERE block: the text
whereClause(q) ==
    IF Len(q.wheres) > 0 \/ Len(q.orWheres) > 0
    THEN " WHERE "
         \o (IF Len(q.wheres) > 0 THEN JoinStr(q.wheres, " AND ") ELSE "")
         \o (IF Len(q.orWheres) > 0
             THEN (IF Len(q.wheres) > 0 THEN " OR " ELSE "")
                  \o "(" \o JoinStr(q.orWheres, " OR ") \o ")"
             ELSE "")
    ELSE ""

\* a WHERE block that appends the OR arguments before the AND arguments
whereBlockArgsOrFirst(q) ==
    IF Len(q.wheres) > 0 \/ Len(q.orWheres) > 0
    THEN (IF Len(q.orWheres) > 0 THEN q.orArgs ELSE <<>>)
         \o (IF Len(q.wheres) > 0 THEN q.whereArgs ELSE <<>>)
    ELSE <<>>

\* build, the WHERE block: the arguments it appends
whereBlockArgs(q) ==
    IF Len(q.wheres) > 0 \/ Len(q.orWheres) > 0
    THEN (IF Len(q.wheres) > 0 THEN q.whereArgs ELSE <<>>)
         \o (IF Len(q.orWheres) > 0 THEN q.orArgs ELSE <<>>)
    ELSE <<>>

\* build, GROUP BY
groupClause(q, count) ==
    IF Len(q.groups) > 0 /\ ~count
    THEN " GROUP BY " \o JoinStr(q.groups, ", ") ELSE ""

\* build, HAVING: the text
havingClause(q, count) ==
    IF Len(q.havings) > 0 /\ ~count
    THEN " HAVING " \o JoinStr(q.havings, ", ") ELSE ""

\* build, HAVING: the arguments it appends
havingBlockArgs(m, q, count) ==
    IF Len(q.havings) > 0 /\ ~count THEN View(m, q.havingArgs) ELSE <<>>

\* build, ORDER BY
orderClause(q, count) ==
    IF q.orderBy # "" /\ ~count THEN " ORDER BY " \o q.orderBy ELSE ""

\* a LIMIT that the count projection emits too
limitClauseAlways(q, count) ==
    IF q.limit # <<>> THEN " LIMIT " \o Itoa(q.limit[1]) ELSE ""

\* build, LIMIT
limitClause(q, count) ==
    IF q.limit # <<>> /\ ~count THEN " LIMIT " \o Itoa(q.limit[1]) ELSE ""

\* build, OFFSET
offsetClause(q, count) ==
    IF q.offset # <<>> /\ ~count THEN " OFFSET " \o Itoa(q.offset[1]) ELSE ""

\* build, the statement text before the dialect rewrite
assemble(q, count) ==
    selectClause(q, count) \o joinsClause(q) \o whereClause(q)
        \o groupClause(q, count) \o havingClause(q, count)
        \o orderClause(q, count) \o limitClause(q, count)
        \o offsetClause(q, count)

\* build(count): the statement text and its arguments
build(m, p, count) ==
    LET q      == Deref(m, p)
        sqlStr == assemble(q, count)
    IN  [sql  |-> IF q.flavor = FlavorPostgres THEN NumberMarkers(sqlStr) ELSE sqlStr,
         args |-> q.joinArgs \o whereBlockArgs(q) \o havingBlockArgs(m, q, count)]

(***************************************************************************)
(* the terminal operations.  The execution collaborator is the             *)
(* environment: db tells whether the query fails, how many rows it yields, *)
(* and whether reading a row, converting a column or the cursor itself     *)
(* fails.  A destination is a pointer or not, to a struct, a slice or      *)
(* something else, and implements Tabler for a record or for none.         *)
(***************************************************************************)
\* no answer of the execution collaborator
NoDb == [qerr |-> FALSE, n |-> 0, fail |-> "none", col |-> 1]

NoOutcome == [op |-> "none", err |-> "nil", executed |-> <<>>, cursor |-> "none",
              written |-> 0, stored |-> <<>>, partial |-> FALSE, db |-> NoDb]

\* what a terminal operation returns: the heap, the error, the statement
\* handed to the collaborator, the cursor, the number of rows stored in the
\* destination and which rows they are (rows.Next yields the rows in order,
\* so the rows stored are the first ones), and whether a record was left
\* with some of its fields written
Outcome(m, op, err, executed, cursor, written, partial) ==
    [m |-> m,
     out |-> [op |-> op, err |-> err, executed |-> executed, cursor |-> cursor,
              written |-> written, stored |-> [i \in 1..written |-> i],
              partial |-> partial, db |-> NoDb]]

\* the outcome, together with what the collaborator answered
Answered(r, db) == [r EXCEPT !.out.db = db]

\* a function that returns without running what it deferred
leaveOpen(r) == r

\* defer rows.Close(): runs on every return that follows a successful query
deferClose(r) ==
    IF r.out.cursor = "open" THEN [r EXCEPT !.out.cursor = "closed"] ELSE r

\* if q.model == nil: bind the destination's record in place, or give up
bindDest(m, q, dest) ==
    LET rq == Deref(m, q)
    IN  IF rq.model # "nil" THEN [m |-> m, err |-> "nil"]
        ELSE IF dest.tabler # "nil"
        THEN [m |-> Store(m, q, [rq EXCEPT !.model = dest.tabler,
                                          !.table = TableName(dest.tabler)]),
              err |-> "nil"]
        ELSE [m |-> m, err |-> "ErrTablerNotImplemented"]

Count(m, q, db) ==
    LET b == build(m, q, TRUE)
    IN  Outcome(m, "Count",
                IF db.qerr THEN "ErrQuery" ELSE IF db.fail = "scan" THEN "ErrScan" ELSE "nil",
                <<b>>, IF db.qerr THEN "none" ELSE "closed",
                IF db.qerr \/ db.fail = "scan" THEN 0 ELSE 1, FALSE)

scanBody(m, q, dest, db) ==
    LET bound == bindDest(m, q, dest)
        b     == build(bound.m, q, FALSE)
        bad   == db.n >= 1 /\ db.fail \in {"scan", "convert"}
        after == IF db.fail = "rows" THEN "ErrRows" ELSE "nil"
    IN  IF bound.err # "nil"
        THEN Outcome(m, "Scan", bound.err, <<>>, "none", 0, FALSE)
        ELSE IF db.qerr
        THEN Outcome(bound.m, "Scan", "ErrQuery", <<b>>, "none", 0, FALSE)
        ELSE IF ~dest.ptr
        THEN Outcome(bound.m, "Scan", "ErrNilPointer", <<b>>, "open", 0, FALSE)
        ELSE IF dest.kind = "slice"
        THEN (IF bad
              THEN Outcome(bound.m, "Scan",
                           IF db.fail = "scan" THEN "ErrScan" ELSE "ErrConvert",
                           <<b>>, "open", 0, FALSE)
              ELSE Outcome(bound.m, "Scan", after, <<b>>, "open", db.n, FALSE))
        ELSE IF dest.kind = "struct"
        THEN (IF bad
              THEN Outcome(bound.m, "Scan",
                           IF db.fail = "scan" THEN "ErrScan" ELSE "ErrConvert",
                           <<b>>, "open", 0, db.fail = "convert" /\ db.col > 1)
              ELSE Outcome(bound.m, "Scan", after, <<b>>, "open",
                           IF db.n >= 1 THEN 1 ELSE 0, FALSE))
        ELSE Outcome(bound.m, "Scan", "ErrUnsupported", <<b>>, "open", 0, FALSE)

Scan(m, q, dest, db) == deferClose(scanBody(m, q, dest, db))

\* a First that answers an empty cursor as Scan does
noRowsSilent(db) == IF db.fail = "rows" THEN "ErrRows" ELSE "nil"

\* if !rows.Next(): the cursor's error, or record not found
noRows(db) == IF db.fail = "rows" THEN "ErrRows" ELSE "ErrNotFound"

firstBody(m, q, dest, db) ==
    LET bound == bindDest(m, q, dest)
        b0    == build(bound.m, q, FALSE)
        \* strings.Contains(strings.ToLower(sqlStr), "limit")
        b     == IF Contains(ToUpper(b0.sql), "LIMIT") THEN b0
                 ELSE [b0 EXCEPT !.sql = @ \o " LIMIT 1"]
    IN  IF bound.err # "nil"
        THEN Outcome(m, "First", bound.err, <<>>, "none", 0, FALSE)
        ELSE IF db.qerr
        THEN Outcome(bound.m, "First", "ErrQuery", <<b>>, "none", 0, FALSE)
        ELSE IF db.n = 0
        THEN Outcome(bound.m, "First", noRows(db), <<b>>, "open", 0, FALSE)
        ELSE IF ~dest.ptr
        THEN Outcome(bound.m, "First", "ErrNilPointer", <<b>>, "open", 0, FALSE)
        ELSE IF db.fail = "scan"
        THEN Outcome(bound.m, "First", "ErrScan", <<b>>, "open", 0, FALSE)
        ELSE IF dest.kind \in {"struct", "slice"}
        THEN (IF db.fail = "convert"
              THEN Outcome(bound.m, "First", "ErrConvert", <<b>>, "open", 0,
                           dest.kind = "struct" /\ db.col > 1)
              ELSE Outcome(bound.m, "First", "nil", <<b>>, "open", 1, FALSE))
        ELSE Outcome(bound.m, "First", "ErrUnsupported", <<b>>, "open", 0, FALSE)

First(m, q, dest, db) == deferClose(firstBody(m, q, dest, db))

(***************************************************************************)
(* scopes: the scope functions of the README, a nil function, and Scopes   *)
(***************************************************************************)
\* Paginate(page, pageSize): db.Offset(offset).Limit(pageSize)
Paginate(m, db, page, pageSize) ==
    LET pg   == IF page <= 0 THEN 1 ELSE page
        size == IF pageSize > 100 THEN 100 ELSE IF pageSize <= 0 THEN 10 ELSE pageSize
        off  == Offset(m, db, (pg - 1) * size)
    IN  Limit(off.m, off.p, size)

\* SearchScope("kw", {name, email}): the ORs are built on db.Clone() and
\* merged back with db.Where(clone)
SearchScope(m, db) ==
    LET like == IF Driver(m, db) = FlavorPostgres THEN " ILIKE ?" ELSE " LIKE ?"
        c0   == Clone(m, db)
        c1   == Or(c0.m, c0.p, "name" \o like, <<Scalar("%kw%")>>)
        cl   == Or(c1.m, c1.p, "email" \o like, <<Scalar("%kw%")>>)
    IN  IF c0.panic THEN c0 ELSE WhereSub(cl.m, db, cl.p)

ApplyScope(m, p, f) ==
    CASE f = "Paginate" -> Paginate(m, p, 1, 20)
      [] f = "Paginate2" -> Paginate(m, p, 2, 0)
      [] f = "SearchScope" -> SearchScope(m, p)

\* a loop that applies the functions from the last to the first
RECURSIVE ScopesLoopReversed(_, _, _)
ScopesLoopReversed(acc, fs, i) ==
    LET j == Len(fs) + 1 - i
    IN  IF i > Len(fs) \/ acc.panic THEN acc
        ELSE IF fs[j] = "nil" THEN ScopesLoopReversed(acc, fs, i + 1)
        ELSE ScopesLoopReversed(ApplyScope(acc.m, acc.p, fs[j]), fs, i + 1)

RECURSIVE ScopesLoop(_, _, _)
ScopesLoop(acc, fs, i) ==
    IF i > Len(fs) \/ acc.panic THEN acc
    ELSE IF fs[i] = "nil" THEN ScopesLoop(acc, fs, i + 1)
    ELSE ScopesLoop(ApplyScope(acc.m, acc.p, fs[i]), fs, i + 1)

Scopes(m, q, fs) ==
    IF Len(fs) = 0 THEN Ret(m, q) ELSE ScopesLoop(Ret(m, q), fs, 1)

(***************************************************************************)
(* garbage collection: only the adapters and arrays still referenced       *)
(* remain, numbered in the order the roots reach them (an address is       *)
(* observable only through equality)                                       *)
(***************************************************************************)
RECURSIVE Dedupe(_, _)
Dedupe(seq, i) ==
    IF i > Len(seq) THEN <<>>
    ELSE LET rest == Dedupe(seq, i + 1)
         IN  IF seq[i] = 0 \/ \E j \in 1..(i - 1) : seq[j] = seq[i]
             THEN rest ELSE <<seq[i]>> \o rest

PosIn(seq, x) == IF x = 0 THEN 0 ELSE CHOOSE i \in 1..Len(seq) : seq[i] = x

Collect(m, roots) ==
    LET live == Dedupe(roots, 1)
        arrs == Dedupe([i \in 1..Len(live) |-> m.heap[live[i]].havingArgs.arr], 1)
    IN  [m |-> [heap |-> [i \in 1..Len(live) |->
                            [m.heap[live[i]] EXCEPT
                                !.havingArgs.arr = PosIn(arrs, @)]],
                arrays |-> [i \in 1..Len(arrs) |-> m.arrays[arrs[i]]]],
         live |-> live]

(***************************************************************************)
(* the inputs of the calls                                                 *)
(***************************************************************************)
DriverTypes == {"mysql.MySQLDriver", "pq.Driver"}

WhereInputs ==
    <<[cond |-> "status = ?", args |-> <<Scalar("active")>>],
      [cond |-> "id IN ?", args |-> <<Slice(<<"1", "2">>)>>],
      [cond |-> "a = ? AND b IN ?", args |-> <<Scalar("1"), Slice(<<"2", "3">>)>>],
      [cond |-> "a = ? AND b IN ?", args |-> <<Scalar("1"), Slice(<<>>)>>],
      [cond |-> "id IN ?", args |-> <<Slice(<<>>)>>],
      [cond |-> "note = '?' AND id = ?", args |-> <<Scalar("5")>>],
      [cond |-> "1=1; DROP TABLE users", args |-> <<>>],
      [cond |-> "a IN ? AND b IN ?", args |-> <<Slice(<<"1", "2">>), Slice(<<"3">>)>>]>>

OrInputs ==
    <<[cond |-> "role = ?", args |-> <<Scalar("admin")>>],
      [cond |-> "role = ?", args |-> <<Scalar("owner")>>],
      [cond |-> "1=1 UNION SELECT 1", args |-> <<>>]>>

JoinInputs ==
    <<[clause |-> "JOIN orders o ON o.uid = ?", args |-> <<Scalar("70")>>],
      [clause |-> "LEFT JOIN orders ON orders.uid = ?", args |-> <<Scalar("7")>>],
      [clause |-> "JOIN t ON t.id = ?; DROP TABLE t", args |-> <<Scalar("8")>>],
      [clause |-> "", args |-> <<>>]>>

SelectInputs == <<<<"id", "name">>, <<"id; DROP TABLE x">>, <<>>, <<" u.id ">>>>

GroupByInputs == <<<<"dept">>, <<"a b">>, <<>>, <<" dept ", "1x">>>>

HavingInputs ==
    <<[cols |-> <<"COUNT(id) > ?">>, args |-> <<Scalar("1")>>],
      [cols |-> <<"SUM(n) > ?", "SUM(n) < ?">>, args |-> <<Scalar("2"), Scalar("9")>>],
      [cols |-> <<"MAX(n) = ?">>, args |-> <<Scalar("3")>>],
      [cols |-> <<"MIN(n) = ?">>, args |-> <<Scalar("4")>>],
      [cols |-> <<"COUNT(1) > ?; DROP TABLE t">>, args |-> <<Scalar("6")>>],
      [cols |-> <<>>, args |-> <<>>]>>

LimitInputs == <<10, 0>>

OffsetInputs == <<5>>

OrderInputs ==
    <<"created_at DESC", "name ASC", "name; DROP TABLE users; --", "", "name asc">>

ModelInputs == <<"User", "Product", "nil">>

ContextInputs == <<"ctx1">>

\* *User, *[]User, *int64 and a User value
DestInputs ==
    <<[ptr |-> TRUE, kind |-> "struct", tabler |-> "User"],
      [ptr |-> TRUE, kind |-> "slice", tabler |-> "nil"],
      [ptr |-> TRUE, kind |-> "int", tabler |-> "nil"],
      [ptr |-> FALSE, kind |-> "struct", tabler |-> "User"]>>

MaxRows == 2
MaxCols == 2

\* what the collaborator may do with one statement: fail, or answer n rows of
\* which the first cannot be read (scan), or has a cell in column col that
\* cannot be converted (convert), or end the cursor with an error (rows).
\* A failure in a later row gives a Scan into a collection the same outcome
\* and is never met by the operations that read one row.
DbOutcomes ==
    {[qerr |-> TRUE, n |-> 0, fail |-> "none", col |-> 1]}
        \cup {[qerr |-> FALSE, n |-> n, fail |-> f, col |-> 1] :
                  n \in 0..MaxRows, f \in {"none", "scan", "convert", "rows"}}
        \cup {[qerr |-> FALSE, n |-> n, fail |-> "convert", col |-> c] :
                  n \in 1..MaxRows, c \in 2..MaxCols}

ScopesInputs ==
    <<<<>>, <<"Paginate">>, <<"nil", "SearchScope">>, <<"Paginate", "SearchScope">>,
      <<"Paginate", "Paginate2">>>>

(***************************************************************************)
(* workloads: the number of references the callers hold, the record the    *)
(* first adapter is bound to, and the calls that may be made (each at most *)
(* once, in any order, on any reference, kept in any reference)            *)
(***************************************************************************)
MaxCalls == 8

Call(op, k) == [op |-> op, k |-> k]

ScenarioCalls ==
    {Call("Where", 1), Call("Or", 1), Call("Or", 2), Call("Order", 1), Call("Limit", 1)}

ComposeCalls ==
    {Call("Join", 2), Call("Where", 1), Call("Or", 1), Call("GroupBy", 1),
     Call("Having", 1), Call("Order", 2), Call("Limit", 1), Call("Offset", 1),
     Call("Select", 1)}

WhereCalls ==
    {Call("Where", 2), Call("Where", 3), Call("Where", 4), Call("Where", 5),
     Call("Where", 6), Call("Where", 8)}

UnvalidatedCalls ==
    {Call("Where", 7), Call("Or", 3), Call("UnsafeOrder", 3), Call("UnsafeJoin", 3),
     Call("UnsafeSelect", 2), Call("UnsafeGroupBy", 2), Call("UnsafeHaving", 5),
     Call("UnsafeSelect", 3), Call("UnsafeGroupBy", 3), Call("UnsafeHaving", 6)}

RejectedCalls ==
    {Call("Where", 1), Call("Order", 3), Call("Order", 5), Call("SafeOrder", 3),
     Call("Join", 3), Call("Join", 1), Call("SafeJoin", 3), Call("Select", 2),
     Call("SafeSelect", 2)}

RejectedGroupCalls ==
    {Call("Having", 1), Call("GroupBy", 1), Call("GroupBy", 2), Call("SafeGroupBy", 2),
     Call("Having", 5), Call("SafeHaving", 5), Call("Order", 2), Call("Order", 1),
     Call("SafeOrder", 1)}

AcceptedCalls ==
    {Call("SafeOrder", 2), Call("SafeJoin", 2), Call("SafeSelect", 1),
     Call("SafeGroupBy", 4), Call("SafeHaving", 1), Call("Select", 4),
     Call("Order", 4), Call("Join", 4), Call("Limit", 2)}

EmptyListCalls ==
    {Call("Select", 1), Call("Select", 3), Call("GroupBy", 1), Call("GroupBy", 3),
     Call("Having", 1), Call("Having", 6), Call("SafeSelect", 3),
     Call("SafeGroupBy", 3), Call("SafeHaving", 6)}

BranchCalls ==
    {Call("Having", 2), Call("Having", 1), Call("Having", 3), Call("Having", 4)}

SubBuilderCalls ==
    {Call("Where", 1), Call("Or", 1), Call("WhereSub", 1), Call("WhereSub", 2),
     Call("Clone", 1)}

BindingCalls ==
    {Call("UseModel", 1), Call("UseModel", 2), Call("UseModel", 3), Call("Clone", 1),
     Call("WithContext", 1), Call("Scopes", 1), Call("Scopes", 2), Call("Scopes", 3),
     Call("Scopes", 4)}

UnboundCalls ==
    {Call("Where", 1), Call("UseModel", 1), Call("Count", 1), Call("Scan", 1),
     Call("Scan", 2), Call("First", 2), Call("First", 3)}

BoundCalls ==
    {Call("Where", 1), Call("Limit", 1), Call("Count", 1), Call("Scan", 3),
     Call("Scan", 4), Call("First", 1), Call("First", 4), Call("Scopes", 5)}

Workloads ==
    {[callers |-> 1, model |-> "nil", menu |-> UnboundCalls],
     [callers |-> 1, model |-> "User", menu |-> BoundCalls],
     [callers |-> 1, model |-> "User", menu |-> ScenarioCalls],
     [callers |-> 1, model |-> "User", menu |-> ComposeCalls],
     [callers |-> 1, model |-> "User", menu |-> WhereCalls],
     [callers |-> 1, model |-> "User", menu |-> UnvalidatedCalls],
     [callers |-> 1, model |-> "User", menu |-> RejectedCalls],
     [callers |-> 1, model |-> "User", menu |-> RejectedGroupCalls],
     [callers |-> 1, model |-> "User", menu |-> AcceptedCalls],
     [callers |-> 1, model |-> "User", menu |-> EmptyListCalls],
     [callers |-> 2, model |-> "User", menu |-> BranchCalls],
     [callers |-> 2, model |-> "User", menu |-> SubBuilderCalls],
     [callers |-> 1, model |-> "nil", menu |-> BindingCalls]}

(***************************************************************************)
(* the state: the heap, the references the callers hold, the calls left    *)
(* and made, and the last call (which reference it was made on, which      *)
(* received the result, and the receiver, kept reachable for one step)     *)
(***************************************************************************)
VARIABLES mem, refs, todo, made, last, out, verdict, tx, cache, procs

vars == <<mem, refs, todo, made, last, out, verdict, tx, cache, procs>>

\* the variables of the query builder and of its callers
builderVars == <<mem, refs, todo, made, last, out>>

\* no transaction, an empty field map cache and no goroutine
\* no transaction adapter in use: the statements sent, the last call and what
\* it returned
NoTx ==
    [flavor |-> "none", log |-> <<>>, err |-> "nil", calls |-> 0,
     call |-> [op |-> "none", src |-> [shape |-> "nil", type |-> "", id |-> ""],
               fields |-> {}, models |-> <<>>]]

\* both sync.Maps empty; a map is held as a set of entries
NoCache == [gorm |-> {}, sql |-> {}]

\* no query builder in use
Idle ==
    /\ mem = [heap |-> <<>>, arrays |-> <<>>]
    /\ refs = <<>>
    /\ todo = {}
    /\ made = {}
    /\ last = [call |-> Call("none", 1), from |-> 1, to |-> 1, recv |-> 1,
               panic |-> FALSE]
    /\ out = NoOutcome


\* no validator has been called
NoVerdict == [fn |-> "none", arg |-> <<>>, res |-> "none", val |-> <<>>]

Callers == DOMAIN refs

Init ==
    \E w \in Workloads, d \in DriverTypes :
        LET m0 == [heap |-> <<NewSqlAdapter(d)>>, arrays |-> <<>>]
            r  == IF w.model = "nil" THEN Ret(m0, 1) ELSE UseModel(m0, 1, w.model)
            gc == Collect(r.m, <<r.p>>)
        IN  /\ mem = gc.m
            /\ refs = [c \in 1..w.callers |-> 1]
            /\ todo = w.menu
            /\ made = {}
            /\ last = [call |-> Call("UseModel", 1), from |-> 1, to |-> 1,
                       recv |-> 1, panic |-> FALSE]
            /\ out = NoOutcome
            /\ verdict = NoVerdict
            /\ tx = NoTx /\ cache = NoCache /\ procs = <<>>

\* refs[to] = refs[from].<call>, whose outcome on the heap is r
Step(call, from, to, r) ==
    /\ call \in todo
    /\ Cardinality(made) < MaxCalls
    /\ LET newRefs == IF r.panic THEN refs ELSE [refs EXCEPT ![to] = r.p]
           roots   == [i \in 1..(Len(refs) + 1) |->
                          IF i <= Len(refs) THEN newRefs[i] ELSE refs[from]]
           gc      == Collect(r.m, roots)
       IN  /\ mem' = gc.m
           /\ refs' = [c \in DOMAIN refs |-> PosIn(gc.live, newRefs[c])]
           /\ last' = [call |-> call, from |-> from, to |-> to,
                       recv |-> PosIn(gc.live, refs[from]), panic |-> r.panic]
    /\ todo' = todo \ {call}
    /\ made' = made \cup {call}
    /\ out' = NoOutcome
    /\ UNCHANGED <<verdict, tx, cache, procs>>

\* refs[from].<call>(dest), a terminal operation whose outcome is r
Finish(call, from, r) ==
    /\ call \in todo
    /\ Cardinality(made) < MaxCalls
    /\ LET gc == Collect(r.m, Append(refs, refs[from]))
       IN  /\ mem' = gc.m
           /\ refs' = [c \in DOMAIN refs |-> PosIn(gc.live, refs[c])]
           /\ last' = [call |-> call, from |-> from, to |-> from,
                       recv |-> PosIn(gc.live, refs[from]), panic |-> FALSE]
    /\ todo' = todo \ {call}
    /\ made' = made \cup {call}
    /\ out' = r.out
    /\ UNCHANGED <<verdict, tx, cache, procs>>

DoWithContext ==
    \E from \in Callers, to \in Callers, k \in DOMAIN ContextInputs :
        Step(Call("WithContext", k), from, to,
             WithContext(mem, refs[from], ContextInputs[k]))

DoUseModel ==
    \E from \in Callers, to \in Callers, k \in DOMAIN ModelInputs :
        Step(Call("UseModel", k), from, to, UseModel(mem, refs[from], ModelInputs[k]))

DoWhere ==
    \E from \in Callers, to \in Callers, k \in DOMAIN WhereInputs :
        Step(Call("Where", k), from, to,
             Where(mem, refs[from], WhereInputs[k].cond, WhereInputs[k].args))

\* Where(sub), sub being the adapter reference k holds
DoWhereSub ==
    \E from \in Callers, to \in Callers, k \in Callers :
        Step(Call("WhereSub", k), from, to, WhereSub(mem, refs[from], refs[k]))

DoOr ==
    \E from \in Callers, to \in Callers, k \in DOMAIN OrInputs :
        Step(Call("Or", k), from, to,
             Or(mem, refs[from], OrInputs[k].cond, OrInputs[k].args))

DoJoin ==
    \E from \in Callers, to \in Callers, k \in DOMAIN JoinInputs :
        Step(Call("Join", k), from, to,
             Join(mem, refs[from], JoinInputs[k].clause, JoinInputs[k].args))

DoSelect ==
    \E from \in Callers, to \in Callers, k \in DOMAIN SelectInputs :
        Step(Call("Select", k), from, to, Select(mem, refs[from], SelectInputs[k]))

DoGroupBy ==
    \E from \in Callers, to \in Callers, k \in DOMAIN GroupByInputs :
        Step(Call("GroupBy", k), from, to, GroupBy(mem, refs[from], GroupByInputs[k]))

DoHaving ==
    \E from \in Callers, to \in Callers, k \in DOMAIN HavingInputs :
        Step(Call("Having", k), from, to,
             Having(mem, refs[from], HavingInputs[k].cols, HavingInputs[k].args))

DoLimit ==
    \E from \in Callers, to \in Callers, k \in DOMAIN LimitInputs :
        Step(Call("Limit", k), from, to, Limit(mem, refs[from], LimitInputs[k]))

DoOffset ==
    \E from \in Callers, to \in Callers, k \in DOMAIN OffsetInputs :
        Step(Call("Offset", k), from, to, Offset(mem, refs[from], OffsetInputs[k]))

DoOrder ==
    \E from \in Callers, to \in Callers, k \in DOMAIN OrderInputs :
        Step(Call("Order", k), from, to, Order(mem, refs[from], OrderInputs[k]))

DoScopes ==
    \E from \in Callers, to \in Callers, k \in DOMAIN ScopesInputs :
        Step(Call("Scopes", k), from, to, Scopes(mem, refs[from], ScopesInputs[k]))

DoClone ==
    \E from \in Callers, to \in Callers :
        Step(Call("Clone", 1), from, to, Clone(mem, refs[from]))

DoSafeOrder ==
    \E from \in Callers, to \in Callers, k \in DOMAIN OrderInputs :
        Step(Call("SafeOrder", k), from, to, SafeOrder(mem, refs[from], OrderInputs[k]))

DoSafeJoin ==
    \E from \in Callers, to \in Callers, k \in DOMAIN JoinInputs :
        Step(Call("SafeJoin", k), from, to,
             SafeJoin(mem, refs[from], JoinInputs[k].clause, JoinInputs[k].args))

DoSafeSelect ==
    \E from \in Callers, to \in Callers, k \in DOMAIN SelectInputs :
        Step(Call("SafeSelect", k), from, to,
             SafeSelect(mem, refs[from], SelectInputs[k]))

DoSafeGroupBy ==
    \E from \in Callers, to \in Callers, k \in DOMAIN GroupByInputs :
        Step(Call("SafeGroupBy", k), from, to,
             SafeGroupBy(mem, refs[from], GroupByInputs[k]))

DoSafeHaving ==
    \E from \in Callers, to \in Callers, k \in DOMAIN HavingInputs :
        Step(Call("SafeHaving", k), from, to,
             SafeHaving(mem, refs[from], HavingInputs[k].cols, HavingInputs[k].args))

DoUnsafeOrder ==
    \E from \in Callers, to \in Callers, k \in DOMAIN OrderInputs :
        Step(Call("UnsafeOrder", k), from, to,
             UnsafeOrder(mem, refs[from], OrderInputs[k]))

DoUnsafeJoin ==
    \E from \in Callers, to \in Callers, k \in DOMAIN JoinInputs :
        Step(Call("UnsafeJoin", k), from, to,
             UnsafeJoin(mem, refs[from], JoinInputs[k].clause, JoinInputs[k].args))

DoUnsafeSelect ==
    \E from \in Callers, to \in Callers, k \in DOMAIN SelectInputs :
        Step(Call("UnsafeSelect", k), from, to,
             UnsafeSelect(mem, refs[from], SelectInputs[k]))

DoUnsafeGroupBy ==
    \E from \in Callers, to \in Callers, k \in DOMAIN GroupByInputs :
        Step(Call("UnsafeGroupBy", k), from, to,
             UnsafeGroupBy(mem, refs[from], GroupByInputs[k]))

DoUnsafeHaving ==
    \E from \in Callers, to \in Callers, k \in DOMAIN HavingInputs :
        Step(Call("UnsafeHaving", k), from, to,
             UnsafeHaving(mem, refs[from], HavingInputs[k].cols, HavingInputs[k].args))

DoCount ==
    \E from \in Callers, db \in DbOutcomes :
        Finish(Call("Count", 1), from, Answered(Count(mem, refs[from], db), db))

DoScan ==
    \E from \in Callers, k \in DOMAIN DestInputs, db \in DbOutcomes :
        Finish(Call("Scan", k), from,
               Answered(Scan(mem, refs[from], DestInputs[k], db), db))

DoFirst ==
    \E from \in Callers, k \in DOMAIN DestInputs, db \in DbOutcomes :
        Finish(Call("First", k), from,
               Answered(First(mem, refs[from], DestInputs[k], db), db))

Next ==
    \/ DoWithContext \/ DoUseModel \/ DoWhere \/ DoWhereSub \/ DoOr \/ DoJoin
    \/ DoSelect \/ DoGroupBy \/ DoHaving \/ DoLimit \/ DoOffset \/ DoOrder
    \/ DoScopes \/ DoClone
    \/ DoSafeOrder \/ DoSafeJoin \/ DoSafeSelect \/ DoSafeGroupBy \/ DoSafeHaving
    \/ DoUnsafeOrder \/ DoUnsafeJoin \/ DoUnsafeSelect \/ DoUnsafeGroupBy
    \/ DoUnsafeHaving
    \/ DoCount \/ DoScan \/ DoFirst

Spec == Init /\ [][Next]_vars

(***************************************************************************)
(* the validators called on their own: the input is drawn at the start,    *)
(* and a step applies one exported validator to it                         *)
(***************************************************************************)
MaxWordLen == 3
MaxListLen == 2

WordChars == {"a", "Z", "_", "7", " ", ".", "-"}

RECURSIVE Words(_)
Words(n) ==
    IF n = 0 THEN {""}
    ELSE Words(n - 1) \cup {w \o c : w \in Words(n - 1), c \in WordChars}

\* 62 characters: a word before them is 62 to 65 characters long
Filler == "xxxxxxxxxxxxxxxxxxxxxxxxxxxxxxxxxxxxxxxxxxxxxxxxxxxxxxxxxxxxxx"

IdentifierInputs == Words(MaxWordLen) \cup {w \o Filler : w \in Words(MaxWordLen)}

\* the denylisted tokens in upper and in lower case, and two harmless names
TokenTexts ==
    {commonSuspiciousPatterns[i] : i \in DOMAIN commonSuspiciousPatterns}
        \cup {databaseMetadataPatterns[i] : i \in DOMAIN databaseMetadataPatterns}
        \cup {"union", "delete", "drop", "insert", "update", "exec", "execute",
              "declare", "select", "create", "alter", "truncate",
              "information_schema", "sys.", "mysql.", "pg_", "name", "price"}

OrderByInputs ==
    {pre \o t \o post : pre \in {"", "id, "}, t \in TokenTexts, post \in {"", "x", "x DESC"}}

JoinClauseInputs ==
    {"JOIN " \o t \o "x ON x.id = u.id" : t \in TokenTexts}
        \cup {"LEFT JOIN t ON t.a = " \o t \o "x" : t \in TokenTexts}

\* the lists of at most MaxListLen elements of a set
Lists(S) == UNION {[1..n -> S] : n \in 0..MaxListLen}

ColumnNames == {"dept", " dept ", "_a", "1x", "", "a b", "u.id", "x" \o Filler \o "yz"}

SelectFields ==
    {"id", "name", "*", " * ", "u.id", " u.id ", "a.b.c", "id; DROP TABLE x", "1x", "u.", "",
     "x" \o Filler \o "yz"}

ValidatorInputs ==
    {[kind |-> "identifier", val |-> s] : s \in IdentifierInputs}
        \cup {[kind |-> "columns", val |-> l] : l \in Lists(ColumnNames)}
        \cup {[kind |-> "fields", val |-> l] : l \in Lists(SelectFields)}
        \cup {[kind |-> "orderBy", val |-> s] : s \in OrderByInputs}
        \cup {[kind |-> "joinClause", val |-> s] : s \in JoinClauseInputs}

InitValidators ==
    /\ verdict \in {[fn |-> "none", arg |-> a, res |-> "none", val |-> <<>>] : a \in ValidatorInputs}
    /\ Idle
    /\ tx = NoTx /\ cache = NoCache /\ procs = <<>>

\* res := fn(arg)
Apply(fn, kind, res) ==
    /\ verdict.fn = "none"
    /\ verdict.arg.kind = kind
    /\ verdict' = [verdict EXCEPT !.fn = fn, !.res = res]
    /\ UNCHANGED <<builderVars, tx, cache, procs>>

DoValidateIdentifier ==
    Apply("ValidateIdentifier", "identifier", ValidateIdentifier(verdict.arg.val))

DoValidateOrderBy ==
    Apply("ValidateOrderBy", "orderBy", ValidateOrderBy(verdict.arg.val))

DoValidateJoinClause ==
    Apply("ValidateJoinClause", "joinClause", ValidateJoinClause(verdict.arg.val))

\* a sanitizer is applied: it answers a cleaned list and an error
ApplyList(fn, kind, r) ==
    /\ verdict.fn = "none"
    /\ verdict.arg.kind = kind
    /\ verdict' = [verdict EXCEPT !.fn = fn, !.res = r.err, !.val = r.val]
    /\ UNCHANGED <<builderVars, tx, cache, procs>>

DoSanitizeColumnNames ==
    ApplyList("SanitizeColumnNames", "columns", SanitizeColumnNames(verdict.arg.val))

DoSanitizeSelectFields ==
    ApplyList("SanitizeSelectFields", "fields", SanitizeSelectFields(verdict.arg.val))

NextValidators ==
    \/ DoValidateIdentifier
    \/ DoSanitizeColumnNames
    \/ DoSanitizeSelectFields
    \/ DoValidateOrderBy
    \/ DoValidateJoinClause

SpecValidators == InitValidators /\ [][NextValidators]_vars

(***************************************************************************)
(* materialization of one cell: a raw cell is a Go value of some dynamic   *)
(* type, a field has a kind and holds a value; convertAssign answers the   *)
(* new value of the field and an error                                     *)
(***************************************************************************)
\* a Go value: its dynamic type, and its number or its text
Val(type, n, s) == [type |-> type, n |-> n, s |-> s]

IntVal(n) == Val("int", n, "")

StrVal(s) == Val("string", 0, s)

BoolVal(b) == Val("bool", IF b THEN 1 ELSE 0, "")

\* a value that library code parsed from a text
Parsed(s) == Val("parsed", 0, s)

\* a raw cell: nil, a byte sequence, a string, an int64 or a bool
Raw(type, n, s) == Val(type, n, s)

Field(kind, old) == [kind |-> kind, old |-> old]

Done(val) == [val |-> val, err |-> "nil"]

Failed(field, err) == [val |-> field.old, err |-> err]

IntKinds == {"int8", "int16", "int64"}

UintKinds == {"uint8", "uint16"}

\* the number of bits of an integer kind
BitsOf(kind) ==
    CASE kind \in {"int8", "uint8"} -> 8
      [] kind \in {"int16", "uint16"} -> 16
      [] kind = "int64" -> 64

RECURSIVE TwoTo(_)
TwoTo(n) == IF n = 0 THEN 1 ELSE 2 * TwoTo(n - 1)

\* reflect.Zero(field.Type())
Zero(kind) ==
    CASE kind = "string" -> StrVal("")
      [] kind \in IntKinds \cup UintKinds -> IntVal(0)
      [] kind = "bool" -> BoolVal(FALSE)
      [] kind \in {"ptrInt8", "slice"} -> Val("nil", 0, "")
      [] OTHER -> Val("zero", 0, kind)

\* a test for the empty cell that takes a string as it is
isEmptyRawUntrimmed(v) ==
    CASE v.type = "nil" -> TRUE
      [] v.type \in {"bytes", "RawBytes"} -> Len(v.s) = 0
      [] v.type = "string" -> v.s = ""
      [] OTHER -> FALSE

isEmptyRaw(v) ==
    CASE v.type = "nil" -> TRUE
      [] v.type \in {"bytes", "RawBytes"} -> Len(v.s) = 0
      [] v.type = "string" -> TrimSpace(v.s) = ""
      [] OTHER -> FALSE

\* toScalar: byte sequences become strings
toScalar(v) == IF v.type \in {"bytes", "RawBytes"} THEN Raw("string", 0, v.s) ELSE v

DigitVal(c) == (CHOOSE i \in 1..10 : At(DigitChars, i) = c) - 1

AllDigits(s) == Len(s) > 0 /\ \A i \in 1..Len(s) : IsDigit(At(s, i))

RECURSIVE Atoi(_)
Atoi(s) ==
    IF Len(s) = 0 THEN 0
    ELSE 10 * Atoi(SubSeq(s, 1, Len(s) - 1)) + DigitVal(At(s, Len(s)))

\* strconv.ParseUint(s, 10, 64), for numerals far below 2^64
ParseUint(s) ==
    IF AllDigits(s) THEN [val |-> Atoi(s), err |-> "nil"]
    ELSE [val |-> 0, err |-> "ErrSyntax"]

\* strconv.ParseInt(s, 10, 64), for numerals far below 2^63
ParseInt(s) ==
    LET signed == Len(s) > 0 /\ At(s, 1) \in {"+", "-"}
        digits == IF signed THEN SubSeq(s, 2, Len(s)) ELSE s
    IN  IF ~AllDigits(digits) THEN [val |-> 0, err |-> "ErrSyntax"]
        ELSE IF signed /\ At(s, 1) = "-" THEN [val |-> 0 - Atoi(digits), err |-> "nil"]
        ELSE [val |-> Atoi(digits), err |-> "nil"]

\* strconv.ParseBool
ParseBool(s) ==
    IF s \in {"1", "t", "T", "TRUE", "true", "True"} THEN [val |-> TRUE, err |-> "nil"]
    ELSE IF s \in {"0", "f", "F", "FALSE", "false", "False"}
    THEN [val |-> FALSE, err |-> "nil"]
    ELSE [val |-> FALSE, err |-> "ErrSyntax"]

\* reflect.Value.SetInt: the int64 is converted to the width of the field,
\* which keeps its low bits
SetInt(field, x) ==
    IF field.kind = "int64" THEN Done(IntVal(x))
    ELSE LET full == TwoTo(BitsOf(field.kind))
             low  == x % full
         IN  Done(IntVal(IF low >= full \div 2 THEN low - full ELSE low))

\* reflect.Value.SetUint: the uint64 is converted to the width of the field
SetUint(field, x) == Done(IntVal(x % TwoTo(BitsOf(field.kind))))

assignInt(field, raw) ==
    LET scalar == toScalar(raw)
    IN  CASE scalar.type = "int64" -> SetInt(field, scalar.n)
          [] scalar.type = "string" ->
                 IF ParseInt(scalar.s).err # "nil"
                 THEN Failed(field, ParseInt(scalar.s).err)
                 ELSE SetInt(field, ParseInt(scalar.s).val)
          [] OTHER -> Failed(field, "ErrParseFailed")

\* uint64(v) of a negative int64 is v + 2^64, which has the low bits of v
assignUint(field, raw) ==
    LET scalar == toScalar(raw)
    IN  CASE scalar.type = "int64" -> SetUint(field, scalar.n)
          [] scalar.type = "string" ->
                 IF ParseUint(scalar.s).err # "nil"
                 THEN Failed(field, ParseUint(scalar.s).err)
                 ELSE SetUint(field, ParseUint(scalar.s).val)
          [] OTHER -> Failed(field, "ErrParseFailed")

assignBool(field, raw) ==
    LET scalar == toScalar(raw)
    IN  CASE scalar.type = "bool" -> Done(BoolVal(scalar.n # 0))
          [] scalar.type = "int64" -> Done(BoolVal(scalar.n # 0))
          [] scalar.type = "string" ->
                 IF ParseBool(scalar.s).err # "nil"
                 THEN Failed(field, ParseBool(scalar.s).err)
                 ELSE Done(BoolVal(ParseBool(scalar.s).val))
          [] OTHER -> Failed(field, "ErrParseFailed")

\* fmt.Sprint(toScalar(raw))
assignString(field, raw) ==
    LET scalar == toScalar(raw)
    IN  CASE scalar.type = "string" -> Done(StrVal(scalar.s))
          [] scalar.type = "int64" -> Done(StrVal(Itoa(scalar.n)))
          [] scalar.type = "bool" ->
                 Done(StrVal(IF scalar.n # 0 THEN "true" ELSE "false"))

\* the kinds whose conversion is written out here; a sql.Scanner, a float,
\* a time, a JSON structure and an array are parsed by library code
ConvertedKinds == {"string", "bool", "ptrInt8"} \cup IntKinds \cup UintKinds

\* field.Set(reflect.New(...)); convertAssign(field.Elem(), raw)
RECURSIVE convertAssign(_, _)
convertAssign(field, raw) ==
    IF raw.type = "nil" \/ isEmptyRaw(raw)
    THEN Done(Zero(field.kind))
    ELSE CASE field.kind = "ptrInt8" ->
                  LET r == convertAssign(Field("int8", IntVal(0)), raw)
                  IN  [val |-> Val("ptr", r.val.n, ""), err |-> r.err]
           [] field.kind = "string" -> assignString(field, raw)
           [] field.kind \in IntKinds -> assignInt(field, raw)
           [] field.kind \in UintKinds -> assignUint(field, raw)
           [] field.kind = "bool" -> assignBool(field, raw)
           [] OTHER -> [val |-> Parsed(raw.s), err |-> "library"]

\* the fields a record may have, each holding a value that is not its zero
FieldInputs ==
    {Field("string", StrVal("old")), Field("bool", BoolVal(TRUE)),
     Field("ptrInt8", Val("ptr", 9, "")),
     Field("float64", Parsed("1.5")), Field("scanner", Parsed("x")),
     Field("time", Parsed("2020-01-01")), Field("struct", Parsed("{}")),
     Field("slice", Parsed("{1}"))}
        \cup {Field(k, IntVal(9)) : k \in IntKinds \cup UintKinds}

NumeralTexts ==
    {"5", "0", "-1", "+7", "127", "128", "-128", "-129", "255", "256", "300",
     "32767", "32768", "40000", "65535", "65536", "abc", " 5", "true"}

EmptyCells ==
    {Raw("nil", 0, ""), Raw("bytes", 0, ""), Raw("RawBytes", 0, ""),
     Raw("string", 0, ""), Raw("string", 0, " "), Raw("string", 0, " \t ")}

RawInputs ==
    EmptyCells
        \cup {Raw(t, 0, s) : t \in {"RawBytes", "bytes", "string"}, s \in NumeralTexts}
        \cup {Raw("bytes", 0, " "), Raw("RawBytes", 0, "  ")}
        \cup {Raw("int64", n, "") : n \in {5, 0, 0 - 1, 127, 128, 0 - 129, 300, 70000}}
        \cup {Raw("bool", 1, "")}

CellInputs ==
    {[kind |-> "cell", field |-> f, raw |-> r] :
         f \in {g \in FieldInputs : g.kind \in ConvertedKinds}, r \in RawInputs}
        \cup {[kind |-> "cell", field |-> f, raw |-> r] : f \in FieldInputs, r \in EmptyCells}

InitConvert ==
    /\ verdict \in {[fn |-> "none", arg |-> a, res |-> "none", val |-> <<>>] : a \in CellInputs}
    /\ Idle
    /\ tx = NoTx /\ cache = NoCache /\ procs = <<>>

DoConvertAssign ==
    ApplyList("convertAssign", "cell", convertAssign(verdict.arg.field, verdict.arg.raw))

NextConvert == DoConvertAssign

SpecConvert == InitConvert /\ [][NextConvert]_vars

(***************************************************************************)
(* what the properties speak of                                            *)
(***************************************************************************)
\* both projections of an adapter
TerminalOps == {"Count", "Scan", "First"}

Builds(m, p) == [row |-> build(m, p, FALSE), cnt |-> build(m, p, TRUE)]

Adapter(c) == Deref(mem, refs[c])

Range(seq) == {seq[i] : i \in 1..Len(seq)}

\* character i of s lies outside every '...' literal
OutsideLiteral(s, i) == CountStr(SubSeq(s, 1, i - 1), "'") % 2 = 0

\* the positions of the true positional markers of a text
TrueMarkers(s, mark) == {i \in 1..Len(s) : At(s, i) = mark /\ OutsideLiteral(s, i)}

MarkerOf(flavor) == IF flavor = FlavorPostgres THEN "$" ELSE "?"

RECURSIVE SumTrueMarkers(_, _)
SumTrueMarkers(frags, n) ==
    IF n = 0 THEN 0
    ELSE Cardinality(TrueMarkers(frags[n], "?")) + SumTrueMarkers(frags, n - 1)

\* the call was given input that its validator rejects
Rejected(call) ==
    CASE call.op \in {"Order", "SafeOrder"} ->
             ValidateOrderBy(OrderInputs[call.k]) # "nil"
      [] call.op \in {"Join", "SafeJoin"} ->
             ValidateJoinClause(JoinInputs[call.k].clause) # "nil"
      [] call.op \in {"Select", "SafeSelect"} ->
             SanitizeSelectFields(SelectInputs[call.k]).err # "nil"
      [] call.op \in {"GroupBy", "SafeGroupBy"} ->
             SanitizeColumnNames(GroupByInputs[call.k]).err # "nil"
      [] call.op \in {"Having", "SafeHaving"} ->
             ValidateHavingClause(HavingInputs[call.k].cols) # "nil"
      [] OTHER -> FALSE

\* the texts and the arguments a call was given
TextsOf(call) ==
    CASE call.op \in {"Order", "SafeOrder", "UnsafeOrder"} -> {OrderInputs[call.k]}
      [] call.op \in {"Join", "SafeJoin", "UnsafeJoin"} -> {JoinInputs[call.k].clause}
      [] call.op \in {"Select", "SafeSelect", "UnsafeSelect"} ->
             Range(SelectInputs[call.k])
      [] call.op \in {"GroupBy", "SafeGroupBy", "UnsafeGroupBy"} ->
             Range(GroupByInputs[call.k])
      [] call.op \in {"Having", "SafeHaving", "UnsafeHaving"} ->
             Range(HavingInputs[call.k].cols)
      [] OTHER -> {}

ArgsOf(call) ==
    CASE call.op \in {"Join", "SafeJoin", "UnsafeJoin"} -> Range(JoinInputs[call.k].args)
      [] call.op \in {"Having", "SafeHaving", "UnsafeHaving"} ->
             Range(HavingInputs[call.k].args)
      [] OTHER -> {}

UnsafeOps ==
    {"UnsafeOrder", "UnsafeJoin", "UnsafeSelect", "UnsafeGroupBy", "UnsafeHaving"}

Denylist == commonSuspiciousPatterns \o databaseMetadataPatterns

\* every fragment the adapter holds
FragmentsOf(q) ==
    Range(q.fields) \cup Range(q.groups) \cup Range(q.havings) \cup Range(q.joins)
        \cup Range(q.wheres) \cup Range(q.orWheres) \cup {q.orderBy}

(***************************************************************************)
(* C1: whatever chain of calls built an adapter, the statement that build  *)
(* returns has as many positional markers as build returns arguments, for  *)
(* the row and for the count projection, and in the adapter the AND        *)
(* arguments are as many as the markers of the AND fragments, and the OR   *)
(* arguments as many as the markers of the OR fragments.                   *)
(***************************************************************************)
C1_MarkersMatchArguments ==
    \A c \in Callers :
        LET q == Adapter(c)
        IN  /\ \A cnt \in BOOLEAN :
                LET b == build(mem, refs[c], cnt)
                IN  Cardinality(TrueMarkers(b.sql, MarkerOf(q.flavor))) = Len(b.args)
            /\ Len(q.whereArgs) = SumTrueMarkers(q.wheres, Len(q.wheres))
            /\ Len(q.orArgs) = SumTrueMarkers(q.orWheres, Len(q.orWheres))

(***************************************************************************)
(* C2: a chain call leaves its receiver as it was: build on the receiver   *)
(* returns the same statement and the same arguments after the call as     *)
(* before it, for both projections, whatever the call and its input.       *)
(***************************************************************************)
C2_ReceiverUnchanged ==
    [][last'.call.op \notin TerminalOps =>
          Builds(mem', last'.recv) = Builds(mem, refs[last'.from])]_vars

\* a call has returned a new adapter that builds another statement than
\* its receiver, which is still held
C2_Witness ==
    /\ made # {}
    /\ ~last.panic
    /\ refs[last.to] # last.recv
    /\ Builds(mem, refs[last.to]) # Builds(mem, last.recv)
    /\ Len(Deref(mem, last.recv).wheres) > 0

(***************************************************************************)
(* C3: when two callers derive their own chains from a snapshot both hold, *)
(* no call made for one of them changes the statement or the arguments of  *)
(* the adapter the other holds, the having arguments included.             *)
(***************************************************************************)
C3_BranchesIndependent ==
    [][last'.call.op \notin TerminalOps =>
          \A c \in Callers :
              c # last'.to => Builds(mem', refs'[c]) = Builds(mem, refs[c])]_vars

(***************************************************************************)
(* C4: after any sequence of default and Safe* calls (no Unsafe* call), no *)
(* fragment an adapter holds, and so none in the assembled statement,      *)
(* carries a denylisted token.                                             *)
(***************************************************************************)
C4_NoDenylistedFragment ==
    (\A call \in made : call.op \notin UnsafeOps) =>
        \A c \in Callers : \A f \in FragmentsOf(Adapter(c)) :
            validateSuspiciousPatterns(f, Denylist) = "nil"

(***************************************************************************)
(* C5: Order, Join, Select, GroupBy, Having and their Safe* counterparts,  *)
(* given input their validator rejects, return the receiver itself: the    *)
(* result builds what the receiver built, and neither the rejected text    *)
(* nor an argument passed with it is in the output.                        *)
(***************************************************************************)
C5_RejectedIsNoOp ==
    [][Rejected(last'.call) =>
          /\ ~last'.panic
          /\ refs'[last'.to] = last'.recv
          /\ Builds(mem', refs'[last'.to]) = Builds(mem, refs[last'.from])
          /\ \A cnt \in BOOLEAN :
                LET b == build(mem', refs'[last'.to], cnt)
                IN  /\ \A t \in TextsOf(last'.call) : ~Contains(b.sql, t)
                    /\ ArgsOf(last'.call) \cap Range(b.args) = {}]_vars

\* a rejected call has just been made on an adapter that has a filter
C5_Witness ==
    /\ Rejected(last.call)
    /\ made # {}
    /\ Len(Deref(mem, last.recv).wheres) > 0

(***************************************************************************)
(* C6: bound to users, Where("status = ?", "active"), Or("role = ?",       *)
(* "admin"), Or("role = ?", "owner"), Order("created_at DESC"), Limit(10)  *)
(* builds SELECT * FROM users WHERE status = ? OR (role = ? OR role = ?)   *)
(* ORDER BY created_at DESC LIMIT 10 with [active, admin, owner], and the  *)
(* same text with $1, $2, $3 in the numbered dialect.                      *)
(***************************************************************************)
C6_Scenario ==
    \A c \in Callers :
        (/\ made = ScenarioCalls
         /\ Adapter(c).orArgs = <<Scalar("admin"), Scalar("owner")>>)
        => build(mem, refs[c], FALSE) =
              [sql  |-> IF Adapter(c).flavor = FlavorPostgres
                        THEN "SELECT * FROM users WHERE status = $1 OR (role = $2 OR role = $3) ORDER BY created_at DESC LIMIT 10"
                        ELSE "SELECT * FROM users WHERE status = ? OR (role = ? OR role = ?) ORDER BY created_at DESC LIMIT 10",
               args |-> <<Scalar("active"), Scalar("admin"), Scalar("owner")>>]

\* the clauses in order, each with whether it is present
ClausesOf(q, count) ==
    LET ands == JoinStr(q.wheres, " AND ")
        ors  == "(" \o JoinStr(q.orWheres, " OR ") \o ")"
    IN  <<[on   |-> TRUE,
           text |-> IF count THEN "SELECT COUNT(1) FROM " \o q.table
                    ELSE "SELECT " \o JoinStr(q.fields, ", ") \o " FROM " \o q.table],
          [on   |-> q.joins # <<>>, text |-> JoinStr(q.joins, " ")],
          [on   |-> q.wheres # <<>> \/ q.orWheres # <<>>,
           text |-> "WHERE " \o (IF q.orWheres = <<>> THEN ands
                                 ELSE IF q.wheres = <<>> THEN ors
                                 ELSE ands \o " OR " \o ors)],
          [on   |-> ~count /\ q.groups # <<>>,
           text |-> "GROUP BY " \o JoinStr(q.groups, ", ")],
          [on   |-> ~count /\ q.havings # <<>>,
           text |-> "HAVING " \o JoinStr(q.havings, ", ")],
          [on   |-> ~count /\ q.orderBy # "", text |-> "ORDER BY " \o q.orderBy],
          [on   |-> ~count /\ q.limit # <<>>, text |-> IF q.limit = <<>> THEN "" ELSE "LIMIT " \o Itoa(q.limit[1])],
          [on   |-> ~count /\ q.offset # <<>>, text |-> IF q.offset = <<>> THEN "" ELSE "OFFSET " \o Itoa(q.offset[1])]>>

IsOn(clause) == clause.on

StatementShape(q, count) ==
    LET present == SelectSeq(ClausesOf(q, count), IsOn)
    IN  JoinStr([i \in 1..Len(present) |-> present[i].text], " ")

(***************************************************************************)
(* C7: build emits SELECT fields FROM table, the joins, WHERE, GROUP BY,   *)
(* HAVING, ORDER BY, LIMIT, OFFSET in this order, each optional clause     *)
(* present iff its part of the adapter is set; the AND fragments are       *)
(* joined by AND and the OR fragments are one parenthesised disjunction    *)
(* after them, joined by a top-level OR; the count projection is SELECT    *)
(* COUNT(1) FROM table with the same joins and WHERE and nothing else.     *)
(***************************************************************************)
C7_ClauseOrder ==
    \A c \in Callers : \A cnt \in BOOLEAN :
        LET q == Adapter(c)
        IN  build(mem, refs[c], cnt).sql =
                IF q.flavor = FlavorPostgres
                THEN NumberMarkers(StatementShape(q, cnt))
                ELSE StatementShape(q, cnt)

\* an adapter with every clause set
C7_Witness ==
    \E c \in Callers :
        LET q == Adapter(c)
        IN  /\ q.joins # <<>> /\ q.wheres # <<>> /\ q.orWheres # <<>>
            /\ q.groups # <<>> /\ q.havings # <<>> /\ q.orderBy # ""
            /\ q.limit # <<>> /\ q.offset # <<>>

\* the clause in which position pos of the assembled text lies
SegmentOf(q, count, pos) ==
    LET a0 == Len(selectClause(q, count))
        a1 == a0 + Len(joinsClause(q))
        a2 == a1 + (IF Len(q.wheres) > 0
                    THEN Len(" WHERE ") + Len(JoinStr(q.wheres, " AND ")) ELSE 0)
        a3 == a1 + Len(whereClause(q))
        a4 == a3 + Len(groupClause(q, count))
        a5 == a4 + Len(havingClause(q, count))
    IN  CASE pos > a0 /\ pos <= a1 -> "join"
          [] pos > a1 /\ pos <= a2 -> "and"
          [] pos > a2 /\ pos <= a3 -> "or"
          [] pos > a4 /\ pos <= a5 -> "having"
          [] OTHER -> "none"

\* the group in which the k-th argument of the list was inserted
GroupOf(q, k) ==
    IF k <= Len(q.joinArgs) THEN "join"
    ELSE IF k <= Len(q.joinArgs) + Len(q.whereArgs) THEN "and"
    ELSE IF k <= Len(q.joinArgs) + Len(q.whereArgs) + Len(q.orArgs) THEN "or"
    ELSE "having"

\* every group has as many arguments as its own fragments have markers
GroupsAligned(q) ==
    /\ Len(q.joinArgs) = SumTrueMarkers(q.joins, Len(q.joins))
    /\ Len(q.whereArgs) = SumTrueMarkers(q.wheres, Len(q.wheres))
    /\ Len(q.orArgs) = SumTrueMarkers(q.orWheres, Len(q.orWheres))
    /\ q.havingArgs.len = SumTrueMarkers(q.havings, Len(q.havings))
    /\ SumTrueMarkers(q.fields, Len(q.fields)) = 0

RECURSIVE NumberTrueRange(_, _, _)
NumberTrueRange(s, lo, hi) ==
    IF lo > hi THEN ""
    ELSE IF lo = hi
    THEN (IF lo \in TrueMarkers(s, "?")
          THEN "$" \o Itoa(Cardinality({i \in TrueMarkers(s, "?") : i <= lo}))
          ELSE At(s, lo))
    ELSE LET mid == (lo + hi) \div 2
         IN  NumberTrueRange(s, lo, mid) \o NumberTrueRange(s, mid + 1, hi)

(***************************************************************************)
(* C9: in the numbered dialect build numbers the true placeholder markers  *)
(* $1, $2, ... from left to right; a '?' inside a literal of a fragment is *)
(* left as it is and takes no number.                                      *)
(***************************************************************************)
C9_OnlyTrueMarkersNumbered ==
    \A c \in Callers : \A cnt \in BOOLEAN :
        LET q     == Adapter(c)
            plain == StatementShape(q, cnt)
        IN  q.flavor = FlavorPostgres =>
                build(mem, refs[c], cnt).sql = NumberTrueRange(plain, 1, Len(plain))

\* the fragment with the placeholder of argument i, i+1, ... expanded, the
\* placeholders of the arguments before i lying left of position from
RECURSIVE ExpandOwn(_, _, _, _)
ExpandOwn(cond, args, i, from) ==
    LET marks == {j \in TrueMarkers(cond, "?") : j >= from}
        pos   == MinOf(marks)
        n     == Len(args[i].elems)
        group == "(" \o JoinStr([k \in 1..n |-> "?"], ", ") \o ")"
    IN  IF i > Len(args) \/ marks = {} THEN cond
        ELSE IF args[i].slice
        THEN ExpandOwn(SubSeq(cond, 1, pos - 1) \o group
                           \o SubSeq(cond, pos + 1, Len(cond)),
                       args, i + 1, pos + Len(group))
        ELSE ExpandOwn(cond, args, i + 1, pos + 1)

RECURSIVE Flatten(_, _)
Flatten(args, i) ==
    IF i > Len(args) THEN <<>>
    ELSE (IF args[i].slice
          THEN [k \in 1..Len(args[i].elems) |-> Scalar(args[i].elems[k])]
          ELSE <<args[i]>>) \o Flatten(args, i + 1)

(***************************************************************************)
(* C10: a Where whose sequence arguments all have at least one element     *)
(* expands, for each sequence of N elements, the placeholder of that very  *)
(* argument into (?, ..., ?) with N markers and leaves the others alone,   *)
(* and appends the scalars and the elements in the order of the arguments. *)
(***************************************************************************)
C10_OwnPlaceholderExpanded ==
    (/\ last.call.op = "Where"
     /\ made # {}
     /\ \A i \in 1..Len(WhereInputs[last.call.k].args) :
            WhereInputs[last.call.k].args[i].slice
                => Len(WhereInputs[last.call.k].args[i].elems) >= 1)
    => LET in  == WhereInputs[last.call.k]
           q   == Adapter(last.to)
           old == Deref(mem, last.recv)
       IN  /\ q.wheres = Append(old.wheres, ExpandOwn(in.cond, in.args, 1, 1))
           /\ q.whereArgs = old.whereArgs \o Flatten(in.args, 1)

\* the last call was a Where one of whose arguments is an empty sequence
WhereWithEmptySequence ==
    /\ last.call.op = "Where"
    /\ made # {}
    /\ \E i \in 1..Len(WhereInputs[last.call.k].args) :
           /\ WhereInputs[last.call.k].args[i].slice
           /\ WhereInputs[last.call.k].args[i].elems = <<>>

(***************************************************************************)
(* C11: a Where call one of whose arguments is an empty sequence adds one  *)
(* fragment, which is not '()' but a constant predicate, and the fragment  *)
(* it adds has exactly as many markers as the call adds arguments, also    *)
(* when the call carries other arguments besides the empty sequence.       *)
(***************************************************************************)
C11_EmptySequenceFragment ==
    WhereWithEmptySequence =>
        LET q    == Adapter(last.to)
            old  == Deref(mem, last.recv)
            frag == q.wheres[Len(q.wheres)]
        IN  /\ Len(q.wheres) = Len(old.wheres) + 1
            /\ ~Contains(frag, "()")
            /\ Cardinality(TrueMarkers(frag, "?"))
                   = Len(q.whereArgs) - Len(old.whereArgs)

\* a Where with only an empty sequence has added the constant predicate
C11_Witness ==
    /\ WhereWithEmptySequence
    /\ Len(WhereInputs[last.call.k].args) = 1
    /\ Adapter(last.to).wheres[Len(Adapter(last.to).wheres)] = "1=0"

IsPrefix(a, b) == Len(a) <= Len(b) /\ SubSeq(b, 1, Len(a)) = a

\* sub extends the state of the receiver rq: same record, and every filter
\* list of rq is the beginning of the same list of sub
DerivedFrom(sub, rq) ==
    /\ sub.model = rq.model
    /\ IsPrefix(rq.wheres, sub.wheres) /\ IsPrefix(rq.whereArgs, sub.whereArgs)
    /\ IsPrefix(rq.orWheres, sub.orWheres) /\ IsPrefix(rq.orArgs, sub.orArgs)

\* the grouped predicate (ANDs [OR (ORs)])
GroupOfConditions(ands, ors) ==
    "(" \o JoinStr(ands, " AND ")
        \o (IF ors # <<>>
            THEN (IF ands # <<>> THEN " OR " ELSE "") \o "(" \o JoinStr(ors, " OR ") \o ")"
            ELSE "")
        \o ")"

(***************************************************************************)
(* C12: Where(sub), sub derived from the receiver, appends one grouped     *)
(* fragment made only of the conditions sub added after the receiver's     *)
(* state, with exactly their arguments in order: none of the receiver's    *)
(* own AND or OR fragments, and none of their arguments, is repeated in    *)
(* the group.                                                              *)
(***************************************************************************)
C12_SubBuilderGroup ==
    [][(/\ last'.call.op = "WhereSub"
        /\ DerivedFrom(Deref(mem, refs[last'.call.k]), Deref(mem, refs[last'.from])))
       => LET rq  == Deref(mem, refs[last'.from])
              sub == Deref(mem, refs[last'.call.k])
              res == Deref(mem', refs'[last'.to])
          IN  /\ res.wheres =
                     Append(rq.wheres,
                            GroupOfConditions(Drop(sub.wheres, Len(rq.wheres)),
                                              Drop(sub.orWheres, Len(rq.orWheres))))
              /\ res.whereArgs =
                     rq.whereArgs \o Drop(sub.whereArgs, Len(rq.whereArgs))
                                  \o Drop(sub.orArgs, Len(rq.orArgs))]_vars

\* a receiver with an AND filter has merged a builder derived from it that
\* added an OR condition, and the group holds that condition only
C12_Witness ==
    /\ last.call.op = "WhereSub"
    /\ last.to # last.call.k
    /\ LET rq  == Deref(mem, last.recv)
           sub == Adapter(last.call.k)
           res == Adapter(last.to)
       IN  /\ rq.wheres # <<>> /\ rq.orWheres = <<>>
           /\ DerivedFrom(sub, rq)
           /\ Len(sub.orWheres) > 0
           /\ res.wheres = Append(rq.wheres, GroupOfConditions(<<>>, sub.orWheres))
           /\ res.whereArgs = rq.whereArgs \o sub.orArgs

(***************************************************************************)
(* C13: Clone returns a builder with the record binding and the table of   *)
(* the receiver and with detached clause state: the clone holds none of    *)
(* the receiver's pending AND and OR filters nor their arguments.          *)
(***************************************************************************)
C13_CloneDetached ==
    (last.call.op = "Clone" /\ made # {} /\ ~last.panic) =>
        LET rq  == Deref(mem, last.recv)
            res == Adapter(last.to)
        IN  /\ res.model = rq.model /\ res.table = rq.table
            /\ res.wheres = <<>> /\ res.whereArgs = <<>>
            /\ res.orWheres = <<>> /\ res.orArgs = <<>>

\* Clone has been called on a bound builder that holds a filter
C13_Witness ==
    /\ last.call.op = "Clone" /\ made # {} /\ ~last.panic
    /\ Deref(mem, last.recv).wheres # <<>>
    /\ Adapter(last.to).model = Deref(mem, last.recv).model

(***************************************************************************)
(* C14: no chain call panics, whatever its input and the state of its      *)
(* receiver: Clone and UseModel on a builder with no record bound or given *)
(* a nil record, and Scopes given nil functions, included.                 *)
(***************************************************************************)
C14_NoChainCallPanics == ~last.panic

\* Scopes has been given a nil function and has returned normally
C14_Witness ==
    /\ last.call.op = "Scopes" /\ made # {}
    /\ "nil" \in Range(ScopesInputs[last.call.k])
    /\ ~last.panic

\* the last call was a terminal operation on a builder with no record bound,
\* given a destination that names no record
UnboundTerminal ==
    /\ last.call.op \in TerminalOps
    /\ Deref(mem, last.recv).model = "nil"
    /\ (last.call.op = "Count" \/ DestInputs[last.call.k].tabler = "nil")

(***************************************************************************)
(* C15: Count, Scan and First on a builder with no record bound, given a   *)
(* destination that does not name a record, return the no-record-binding   *)
(* error and hand no statement to the execution collaborator; Count never  *)
(* executes a statement with an empty table name.                          *)
(***************************************************************************)
C15_NoRecordBindingError ==
    UnboundTerminal =>
        /\ out.err = "ErrTablerNotImplemented"
        /\ out.executed = <<>>

\* Scan on an unbound builder has refused a destination that names no record
C15_Witness ==
    /\ UnboundTerminal
    /\ last.call.op = "Scan"
    /\ out.err = "ErrTablerNotImplemented"
    /\ out.executed = <<>>

\* the functions of a Scopes call that are not nil, in order
RECURSIVE NonNil(_, _)
NonNil(fs, i) ==
    IF i > Len(fs) THEN <<>>
    ELSE (IF fs[i] = "nil" THEN <<>> ELSE <<fs[i]>>) \o NonNil(fs, i + 1)

\* fn(...f1(q)...), written out for at most two functions
Composed(m, q, fs) ==
    LET r1 == ApplyScope(m, q, fs[1])
    IN  IF Len(fs) = 0 THEN Ret(m, q)
        ELSE IF Len(fs) = 1 \/ r1.panic THEN r1
        ELSE ApplyScope(r1.m, r1.p, fs[2])

\* Scopes(f1) followed by Scopes(f2)
OneByOne(m, q, fs) ==
    LET r1 == Scopes(m, q, <<fs[1]>>)
    IN  IF Len(fs) = 0 THEN Ret(m, q)
        ELSE IF Len(fs) = 1 \/ r1.panic THEN r1
        ELSE Scopes(r1.m, r1.p, <<fs[2]>>)

\* two outcomes of a chain call build the same
SameOutcome(r, panicked, m, p) ==
    /\ r.panic = panicked
    /\ ~panicked => Builds(r.m, r.p) = Builds(m, p)

(***************************************************************************)
(* C16: Scopes(f1, ..., fn) returns fn(...f1(q)...), the functions applied *)
(* in order, left to right, each to the result of the one before; Scopes   *)
(* with no function returns the receiver itself; and Scopes(f1, f2) builds *)
(* the same statement and arguments as Scopes(f1) followed by Scopes(f2).  *)
(***************************************************************************)
C16_ScopesFold ==
    [][last'.call.op = "Scopes" =>
          LET fs == ScopesInputs[last'.call.k]
              q  == refs[last'.from]
          IN  /\ SameOutcome(Composed(mem, q, NonNil(fs, 1)),
                             last'.panic, mem', refs'[last'.to])
              /\ SameOutcome(OneByOne(mem, q, fs),
                             last'.panic, mem', refs'[last'.to])
              /\ fs = <<>> => ~last'.panic /\ refs'[last'.to] = last'.recv]_vars

\* Scopes has applied two functions that do not commute: the page that the
\* second one sets is the one the result builds
C16_Witness ==
    /\ last.call = Call("Scopes", 5)
    /\ ~last.panic
    /\ Adapter(last.to).limit = <<10>>
    /\ Adapter(last.to).offset = <<10>>
    /\ Adapter(last.to).wheres # <<>>

\* ^[A-Za-z_][A-Za-z0-9_]*$
IsIdentifierText(s) ==
    /\ Len(s) >= 1
    /\ At(s, 1) \in LowerSet \cup UpperSet \cup {"_"}
    /\ \A i \in 2..Len(s) : At(s, i) \in LowerSet \cup UpperSet \cup DigitSet \cup {"_"}

(***************************************************************************)
(* C17: ValidateIdentifier accepts s iff s matches ^[A-Za-z_][A-Za-z0-9_]*$ *)
(* and is at most 64 characters long; an empty or non-matching s (of at    *)
(* most 64 characters) is rejected as invalid identifier, and an s longer  *)
(* than 64 as identifier too long.                                         *)
(***************************************************************************)
C17_ValidateIdentifier ==
    verdict.fn = "ValidateIdentifier" =>
        LET s == verdict.arg.val
        IN  /\ verdict.res = "nil" <=> (IsIdentifierText(s) /\ Len(s) <= 64)
            /\ Len(s) > 64 => verdict.res = "ErrIdentifierTooLong"
            /\ (Len(s) <= 64 /\ ~IsIdentifierText(s))
                   => verdict.res = "ErrInvalidIdentifier"

\* an identifier of exactly 64 characters has been accepted
C17_Witness ==
    /\ verdict.fn = "ValidateIdentifier"
    /\ Len(verdict.arg.val) = 64
    /\ verdict.res = "nil"

\* the text holds a denylisted token, in whatever case
HoldsDenylisted(s) == \E i \in DOMAIN Denylist : Contains(ToUpper(s), Denylist[i])

(***************************************************************************)
(* C18: ValidateOrderBy and ValidateJoinClause reject as suspicious        *)
(* pattern every non-empty input within the length limit that holds, in    *)
(* whatever case, one of the SQL tokens of the denylist or one of the      *)
(* metadata tokens INFORMATION_SCHEMA, SYS., MYSQL. and PG_, whatever the  *)
(* rest of the input.                                                      *)
(***************************************************************************)
C18_DenylistRejects ==
    LET s == verdict.arg.val
    IN  (\/ verdict.fn = "ValidateOrderBy" /\ Len(s) <= 256
         \/ verdict.fn = "ValidateJoinClause" /\ Len(s) <= 512)
        => (Len(s) > 0 /\ HoldsDenylisted(s) => verdict.res = "ErrSuspiciousPattern")

\* an order-by text that holds an SQL token of the denylist in lower case
\* has been rejected as suspicious
C18_Witness ==
    /\ verdict.fn = "ValidateOrderBy"
    /\ Contains(verdict.arg.val, "drop")
    /\ verdict.res = "ErrSuspiciousPattern"

\* the names of a list, each one trimmed
Trimmed(l) == [i \in DOMAIN l |-> TrimSpace(l[i])]

(***************************************************************************)
(* C19: SanitizeColumnNames trims each name and accepts the list exactly   *)
(* when every trimmed name passes ValidateIdentifier (non-empty, at most   *)
(* 64 characters, first character a letter or an underscore); an accepted  *)
(* list comes back as the trimmed names in order, a rejected one as the    *)
(* rejection of its first failing name and no names.                       *)
(***************************************************************************)
C19_SanitizeColumnNames ==
    verdict.fn = "SanitizeColumnNames" =>
        LET names == Trimmed(verdict.arg.val)
            good  == \A i \in DOMAIN names : ValidateIdentifier(names[i]) = "nil"
        IN  /\ verdict.res = "nil" <=> good
            /\ verdict.res = "nil" => verdict.val = names
            /\ verdict.res # "nil" => verdict.val = <<>>

\* a list of two names, one of them padded with spaces, has been accepted
\* and has come back trimmed
C19_Witness ==
    /\ verdict.fn = "SanitizeColumnNames"
    /\ verdict.arg.val = <<" dept ", "_a">>
    /\ verdict.res = "nil"
    /\ verdict.val = <<"dept", "_a">>

\* an identifier as ValidateIdentifier takes it
IsIdentifier(s) == IsIdentifierText(s) /\ Len(s) <= 64

\* '*', or a dotted identifier of one or two segments
IsSelectField(f) ==
    \/ f = "*"
    \/ IsIdentifier(f)
    \/ \E k \in 1..Len(f) :
           /\ At(f, k) = "."
           /\ IsIdentifier(SubSeq(f, 1, k - 1))
           /\ IsIdentifier(SubSeq(f, k + 1, Len(f)))

\* C20 as stated, the fields taken as they are given: a list is accepted
\* exactly when every field is '*' or a dotted identifier of one or two
\* segments, and an accepted list is returned unchanged
C20_AsStated ==
    verdict.fn = "SanitizeSelectFields" =>
        LET fields == verdict.arg.val
        IN  /\ verdict.res = "nil" <=> \A i \in DOMAIN fields : IsSelectField(fields[i])
            /\ verdict.res = "nil" => verdict.val = fields

(***************************************************************************)
(* C20: SanitizeSelectFields accepts a list exactly when every field,      *)
(* trimmed of the white space around it, is '*' or a dotted identifier of  *)
(* one or two segments each passing ValidateIdentifier.  An accepted list  *)
(* is returned as its trimmed fields in order, so [id, name] comes back    *)
(* unchanged; a list holding 'id; DROP TABLE x' is rejected as a whole;    *)
(* and sanitising an accepted result again returns it unchanged.           *)
(***************************************************************************)
C20_SanitizeSelectFields ==
    verdict.fn = "SanitizeSelectFields" =>
        LET fields == Trimmed(verdict.arg.val)
            again  == SanitizeSelectFields(verdict.val)
        IN  /\ verdict.res = "nil" <=> \A i \in DOMAIN fields : IsSelectField(fields[i])
            /\ verdict.res = "nil" => verdict.val = fields
            /\ verdict.res = "nil" => again.err = "nil" /\ again.val = verdict.val
            /\ verdict.res # "nil" => verdict.val = <<>>
            /\ verdict.arg.val = <<"id", "name">>
                   => verdict.res = "nil" /\ verdict.val = <<"id", "name">>
            /\ (\E i \in DOMAIN fields : verdict.arg.val[i] = "id; DROP TABLE x")
                   => verdict.res # "nil"

\* a list with a padded qualified field and a wildcard has been accepted and
\* has come back trimmed
C20_Witness ==
    /\ verdict.fn = "SanitizeSelectFields"
    /\ verdict.arg.val = <<" u.id ", "*">>
    /\ verdict.res = "nil"
    /\ verdict.val = <<"u.id", "*">>

\* the destination of the last Scan or First
LastDest == DestInputs[last.call.k]

\* the last call was Scan or First, the query succeeded and the cursor held
\* n rows that could all be read and converted
ReadRows(op, n) ==
    /\ last.call.op = op /\ out.op = op
    /\ out.executed # <<>>
    /\ ~out.db.qerr /\ out.db.n = n /\ out.db.fail = "none"

(***************************************************************************)
(* C21: on a result with zero rows First returns the record-not-found      *)
(* outcome and leaves the destination as it was, whereas Scan into a       *)
(* single record or into a collection returns no error and leaves the      *)
(* destination as it was; on a result with at least one row a              *)
(* single-record destination is populated from exactly the first row.      *)
(***************************************************************************)
C21_ZeroRowsAndFirstRow ==
    /\ ReadRows("First", 0)
           => out.err = "ErrNotFound" /\ out.stored = <<>> /\ ~out.partial
    /\ (ReadRows("Scan", 0) /\ LastDest.ptr /\ LastDest.kind \in {"struct", "slice"})
           => out.err = "nil" /\ out.stored = <<>> /\ ~out.partial
    /\ \A n \in 1..MaxRows, op \in {"Scan", "First"} :
           (ReadRows(op, n) /\ LastDest.ptr /\ LastDest.kind = "struct")
               => out.err = "nil" /\ out.stored = <<1>> /\ ~out.partial

\* First has found no row and has answered record not found
C21_Witness ==
    /\ ReadRows("First", 0)
    /\ out.err = "ErrNotFound"
    /\ out.stored = <<>>

\* the last call was a Scan or First that obtained a row cursor
GotCursor ==
    /\ last.call.op \in {"Scan", "First"} /\ out.op = last.call.op
    /\ out.executed # <<>>
    /\ ~out.db.qerr

\* the exit paths of Scan and First that follow a successful query
ExitPaths ==
    {"nil", "ErrNilPointer", "ErrUnsupported", "ErrScan", "ErrConvert", "ErrNotFound",
     "ErrRows"}

(***************************************************************************)
(* C23: whenever Scan or First has obtained a row cursor from the          *)
(* execution collaborator, the cursor is closed when the operation has     *)
(* returned, whatever the exit path: normal completion, nil or non-pointer *)
(* destination, unsupported destination shape, row-scan error,             *)
(* cell-coercion error or not-found.                                       *)
(***************************************************************************)
C23_CursorClosed ==
    /\ GotCursor => out.cursor = "closed" /\ out.err \in ExitPaths
    /\ out.cursor # "open"

\* Scan has refused a destination that is not a pointer, after the query,
\* and the cursor is closed
C23_Witness ==
    /\ GotCursor
    /\ last.call.op = "Scan"
    /\ out.err = "ErrNilPointer"
    /\ out.cursor = "closed"

\* the record an adapter is bound to and its table name
BindingOf(m, p) == <<Deref(m, p).model, Deref(m, p).table>>

(***************************************************************************)
(* C26: Count, Scan and First leave their receiver as it was, whether they *)
(* return an error or not: the record binding, the table name and the      *)
(* statements build returns are the same after the call as before it, so   *)
(* an unbound builder stays unbound.                                       *)
(***************************************************************************)
C26_TerminalLeavesReceiver ==
    [][last'.call.op \in TerminalOps =>
          /\ BindingOf(mem', last'.recv) = BindingOf(mem, refs[last'.from])
          /\ Builds(mem', last'.recv) = Builds(mem, refs[last'.from])]_vars

\* Count has returned on an unbound builder, which is still unbound
C26_Witness ==
    /\ last.call.op = "Count" /\ out.op = "Count"
    /\ BindingOf(mem, last.recv) = <<"nil", "">>

\* the last call was a Scan that failed while it materialized a row
ScanFailedOnRow ==
    /\ last.call.op = "Scan" /\ out.op = "Scan"
    /\ out.err \in {"ErrScan", "ErrConvert"}

(***************************************************************************)
(* C27: when a row-scan error or a cell-coercion error occurs during Scan, *)
(* the error is returned and the destination holds no partial result: a    *)
(* collection has no element appended and a single record has none of its  *)
(* fields changed.                                                         *)
(***************************************************************************)
C27_NoPartialResult ==
    /\ (last.call.op = "Scan" /\ out.op = "Scan" /\ out.executed # <<>>
            /\ ~out.db.qerr /\ out.db.n >= 1 /\ out.db.fail \in {"scan", "convert"}
            /\ LastDest.ptr /\ LastDest.kind \in {"struct", "slice"})
           => ScanFailedOnRow
    /\ ScanFailedOnRow => out.stored = <<>> /\ ~out.partial

\* a Scan into a collection has failed on a cell of the second column and
\* has appended nothing
C27_Witness ==
    /\ ScanFailedOnRow
    /\ LastDest.kind = "slice"
    /\ out.db.col = 2
    /\ out.stored = <<>> /\ ~out.partial

\* sub has no condition to contribute to rq: no OR fragment, and no AND
\* fragment or only those of rq, which are stripped as the common prefix
NothingToAdd(sub, rq) ==
    /\ sub.orWheres = <<>>
    /\ \/ sub.wheres = <<>>
       \/ sub.model = rq.model /\ sub.wheres = rq.wheres

(***************************************************************************)
(* C28: Where(sub) never appends an empty group: when the sub-builder has  *)
(* no condition to contribute (no AND and no OR fragment, or only AND      *)
(* fragments that are all stripped as the common prefix) the result builds *)
(* the same statements and arguments as the receiver, and no Where(sub)    *)
(* stores the fragment '()'.                                               *)
(***************************************************************************)
C28_NoEmptyGroup ==
    [][last'.call.op = "WhereSub"
       => LET rq  == Deref(mem, refs[last'.from])
              sub == Deref(mem, refs[last'.call.k])
              res == Deref(mem', refs'[last'.to])
          IN  /\ NothingToAdd(sub, rq)
                     => Builds(mem', refs'[last'.to]) = Builds(mem, refs[last'.from])
              /\ \A i \in DOMAIN res.wheres : res.wheres[i] # "()"]_vars

\* Where(sub) has appended the group of a sub-builder that holds an OR
\* fragment, and the result holds no empty group
C28_Witness ==
    /\ last.call.op = "WhereSub"
    /\ last.to # last.call.k
    /\ Adapter(last.call.k).orWheres # <<>>
    /\ Len(Adapter(last.to).wheres) = Len(Deref(mem, last.recv).wheres) + 1
    /\ \A i \in DOMAIN Adapter(last.to).wheres : Adapter(last.to).wheres[i] # "()"

HavingOps == {"Having", "SafeHaving", "UnsafeHaving"}

\* the last call was a Having that stored its clauses
HavingStored ==
    /\ last.call.op \in HavingOps /\ made # {}
    /\ ~last.panic
    /\ last.call.op = "UnsafeHaving" \/ ~Rejected(last.call)
    /\ HavingInputs[last.call.k].cols # <<>>

(***************************************************************************)
(* C29: after any sequence of Having, SafeHaving and UnsafeHaving calls    *)
(* that each pass as many arguments as their clauses have placeholders,    *)
(* the having-argument list of every adapter has exactly as many elements  *)
(* as the having clauses that build renders have placeholders, and after a *)
(* call that stored its clauses they are the arguments of those clauses in *)
(* order.                                                                  *)
(***************************************************************************)
C29_HavingArgsMatch ==
    /\ \A c \in Callers :
           LET q == Adapter(c)
           IN  Len(View(mem, q.havingArgs)) = SumCount(q.havings, Len(q.havings), "?")
    /\ HavingStored
           => /\ Adapter(last.to).havings = HavingInputs[last.call.k].cols
              /\ View(mem, Adapter(last.to).havingArgs) = HavingInputs[last.call.k].args

\* a first Having has stored its two clauses with their two arguments
C29_Witness ==
    /\ HavingStored
    /\ Len(Adapter(last.to).havings) = 2
    /\ View(mem, Adapter(last.to).havingArgs) = HavingInputs[last.call.k].args

\* the cell is nil, a byte sequence of length zero, or a string of white
\* space only
IsEmptyCell(raw) ==
    \/ raw.type = "nil"
    \/ raw.type \in {"bytes", "RawBytes"} /\ raw.s = ""
    \/ raw.type = "string" /\ \A i \in 1..Len(raw.s) : IsSpace(At(raw.s, i))

(***************************************************************************)
(* C22: convertAssign sets the field to its zero value and returns no      *)
(* error whenever the raw cell is nil, a byte sequence of length zero or a *)
(* string of white space only, whatever the kind of the field; and the     *)
(* bytes "5" decoded into an integer field give 5, nil decoded into a      *)
(* string field gives "".                                                  *)
(***************************************************************************)
C22_EmptyCellGivesZero ==
    verdict.fn = "convertAssign" =>
        LET f == verdict.arg.field
            r == verdict.arg.raw
        IN  /\ IsEmptyCell(r) => verdict.res = "nil" /\ verdict.val = Zero(f.kind)
            /\ (r.type \in {"bytes", "RawBytes"} /\ r.s = "5" /\ f.kind \in IntKinds)
                   => verdict.res = "nil" /\ verdict.val = IntVal(5)
            /\ (r.type = "nil" /\ f.kind = "string")
                   => verdict.res = "nil" /\ verdict.val = StrVal("")

\* a string of white space has been decoded into an integer field that held
\* a value, and the field is zero
C22_Witness ==
    /\ verdict.fn = "convertAssign"
    /\ verdict.arg.raw = Raw("string", 0, " \t ")
    /\ verdict.arg.field = Field("int16", IntVal(9))
    /\ verdict.res = "nil" /\ verdict.val = IntVal(0)

\* the cell is an int64 or the text of a decimal integer
IsIntegerCell(raw) ==
    \/ raw.type = "int64"
    \/ raw.type \in {"bytes", "RawBytes", "string"} /\ ParseInt(raw.s).err = "nil"

\* the number an integer cell stands for
NumberOf(raw) == IF raw.type = "int64" THEN raw.n ELSE ParseInt(raw.s).val

\* the number is in the range of a field of this kind
Fits(kind, n) ==
    IF kind \in UintKinds THEN n >= 0 /\ n < TwoTo(BitsOf(kind))
    ELSE kind = "int64" \/ (n >= 0 - TwoTo(BitsOf(kind) - 1) /\ n < TwoTo(BitsOf(kind) - 1))

(***************************************************************************)
(* C30: integer coercion never silently changes a value: when the raw cell *)
(* is a textual or 64-bit integer that does not fit the integer field (too *)
(* large or too small for its width, or negative for an unsigned field)    *)
(* convertAssign returns an error, and whenever it returns no error the    *)
(* field holds exactly the number of the cell.                             *)
(***************************************************************************)
C30_NoSilentChange ==
    (/\ verdict.fn = "convertAssign"
     /\ verdict.arg.field.kind \in IntKinds \cup UintKinds
     /\ IsIntegerCell(verdict.arg.raw))
        => LET n == NumberOf(verdict.arg.raw)
           IN  /\ ~Fits(verdict.arg.field.kind, n) => verdict.res # "nil"
               /\ verdict.res = "nil" => verdict.val = IntVal(n)

\* the text of a negative number has been refused for an unsigned field,
\* which keeps its value
C30_Witness ==
    /\ verdict.fn = "convertAssign"
    /\ verdict.arg.field = Field("uint8", IntVal(9))
    /\ verdict.arg.raw = Raw("RawBytes", 0, "-1")
    /\ verdict.res # "nil" /\ verdict.val = IntVal(9)

(***************************************************************************)
(* the transaction adapter's mutation paths: Patch, Update and BulkInsert  *)
(* read the record type by reflection, build one statement and send it     *)
(* with a single ExecContext; tx.log is the list of statements sent        *)
(***************************************************************************)
columnPrefix == "column:"

HasPrefix(s, p) == Len(s) >= Len(p) /\ SubSeq(s, 1, Len(p)) = p

TrimPrefix(s, p) == IF HasPrefix(s, p) THEN SubSeq(s, Len(p) + 1, Len(s)) ELSE s

LowerChar(c) ==
    IF IsUpper(c) THEN At(LowerChars, MinOf({i \in 1..26 : At(UpperChars, i) = c}))
    ELSE c

RECURSIVE toSnakeFrom(_, _)
toSnakeFrom(s, i) ==
    IF i > Len(s) THEN ""
    ELSE (IF i > 1 /\ IsUpper(At(s, i)) THEN "_" ELSE "")
             \o LowerChar(At(s, i)) \o toSnakeFrom(s, i + 1)

\* toSnake: an underscore before every capital but the first, then lower case
toSnake(s) == toSnakeFrom(s, 1)

\* a reflect.StructField: its name, its sql tag, and whether it is exported
\* (PkgPath is empty)
StructField(name, sql, exported) ==
    [name |-> name, sql |-> sql, exported |-> exported]

\* the record types of the mutation workload
StructFields(type) ==
    CASE type = "Account" ->
             <<StructField("ID", "column:id;primaryKey", TRUE),
               StructField("FullName", "column:full_name", TRUE),
               StructField("CreatedAt", "", TRUE),
               StructField("secret", "", FALSE),
               StructField("Hidden", "-", TRUE)>>
      [] type = "Audit" ->
             <<StructField("Code", "column:code", TRUE),
               StructField("Note", "note", TRUE)>>
      [] type = "Label" ->
             <<StructField("ID", "primaryKey", TRUE),
               StructField("Name", "", TRUE)>>
      [] type = "Key" ->
             <<StructField("ID", "column:id;primaryKey", TRUE)>>

MutationTypes == {"Account", "Audit", "Label", "Key"}

MutationTable(type) ==
    CASE type = "Account" -> "accounts"
      [] type = "Audit" -> "audits"
      [] type = "Label" -> "labels"
      [] type = "Key" -> "keys"

RECURSIVE FirstWithPrefix(_, _, _)
FirstWithPrefix(parts, p, i) ==
    IF i > Len(parts) THEN 0
    ELSE IF HasPrefix(parts[i], p) THEN i
    ELSE FirstWithPrefix(parts, p, i + 1)

\* the closure extract of parseColumnTag
extract(tag) ==
    IF Contains(tag, columnPrefix)
    THEN LET parts == Split(tag, ";")
             hit   == FirstWithPrefix(parts, columnPrefix, 1)
         IN  IF hit > 0
             THEN [col |-> TrimPrefix(parts[hit], columnPrefix),
                   pk |-> Contains(tag, "primaryKey")]
             ELSE [col |-> "", pk |-> FALSE]
    ELSE IF ~Contains(tag, ":") THEN [col |-> tag, pk |-> FALSE]
    ELSE [col |-> "", pk |-> FALSE]

parseColumnTag(f) ==
    IF f.sql # "" /\ extract(f.sql).col # "" THEN extract(f.sql)
    ELSE [col |-> "", pk |-> FALSE]

\* col, isPK := parseColumnTag(field); if col == "" { col = toSnake(field.Name) }
columnOf(f) ==
    LET c == parseColumnTag(f)
    IN  [col |-> IF c.col = "" THEN toSnake(f.name) ELSE c.col, pk |-> c.pk]

\* field.PkgPath != "" || field.Tag.Get("sql") == "-"
skipped(f) == ~f.exported \/ f.sql = "-"

\* what a Tabler argument is: a pointer to a record, a nil pointer, the nil
\* interface, a record passed by value, or a pointer to something that is
\* not a record
SrcShapes == {"ptr", "nilptr", "nil", "value", "ptrNonStruct"}

Src(shape, type, id) == [shape |-> shape, type |-> type, id |-> id]

\* val.Field(i).Interface() of the record src points to
fieldValue(src, f) == src.id \o "." \o f.name

\* the two reflection checks every mutation starts with
checkPtrStruct(src) ==
    IF src.shape \in {"nilptr", "nil", "value"} THEN "ErrNilPointer"
    ELSE IF src.shape = "ptrNonStruct" THEN "ErrUnsupported"
    ELSE "nil"

\* q.tx.ExecContext(q.ctx, query, args...): the statement is sent, and the
\* database answers with an error or without
ExecContext(t, query, args, fails) ==
    [t EXCEPT !.log = Append(@, [sql |-> query, args |-> args]),
              !.err = IF fails THEN "ErrExec" ELSE "nil"]

\* a return before the statement is sent
Refused(t, err) == [t EXCEPT !.err = err]

convertPostgresPlaceholder(query) == NumberRange(query, 1, Len(query), 0)

flavored(t, query) ==
    IF t.flavor = FlavorPostgres THEN convertPostgresPlaceholder(query) ELSE query

RECURSIVE reflectLoop(_, _, _, _)
\* the loop over typ.NumField() of Patch and Update
reflectLoop(src, fs, i, acc) ==
    IF i > Len(fs) THEN acc
    ELSE IF skipped(fs[i]) THEN reflectLoop(src, fs, i + 1, acc)
    ELSE LET c == columnOf(fs[i])
             v == fieldValue(src, fs[i])
         IN  reflectLoop(src, fs, i + 1,
                 [pkCol |-> IF c.pk THEN c.col ELSE acc.pkCol,
                  pkVal |-> IF c.pk THEN v ELSE acc.pkVal,
                  validCols |-> acc.validCols \cup {c.col},
                  cols |-> IF c.pk THEN acc.cols ELSE Append(acc.cols, c.col \o " = ?"),
                  args |-> IF c.pk THEN acc.args ELSE Append(acc.args, v)])

reflected(src) ==
    reflectLoop(src, StructFields(src.type), 1,
                [pkCol |-> "", pkVal |-> "", validCols |-> {},
                 cols |-> <<>>, args |-> <<>>])

RECURSIVE patchLoopSkipping(_, _, _, _)
\* a loop over the field map that leaves unknown columns out instead of
\* refusing the call
patchLoopSkipping(order, validCols, i, acc) ==
    IF i > Len(order) THEN acc
    ELSE IF order[i].col \notin validCols
    THEN patchLoopSkipping(order, validCols, i + 1, acc)
    ELSE patchLoopSkipping(order, validCols, i + 1,
             [err |-> "nil",
              cols |-> Append(acc.cols, order[i].col \o " = ?"),
              args |-> Append(acc.args, order[i].v)])

RECURSIVE patchLoop(_, _, _, _)
\* for col, v := range fields, in the order the map is iterated in
patchLoop(order, validCols, i, acc) ==
    IF i > Len(order) THEN acc
    ELSE IF order[i].col \notin validCols
    THEN [acc EXCEPT !.err = "ErrInvalidColumn"]
    ELSE patchLoop(order, validCols, i + 1,
             [err |-> "nil",
              cols |-> Append(acc.cols, order[i].col \o " = ?"),
              args |-> Append(acc.args, order[i].v)])

updateQuery(src, cols, pkCol) ==
    "UPDATE " \o MutationTable(src.type) \o " SET " \o JoinStr(cols, ", ")
        \o " WHERE " \o pkCol \o " = ?"

\* Patch(src, fields); order is the iteration order of the map fields
Patch(t, src, order, fails) ==
    IF checkPtrStruct(src) # "nil" THEN Refused(t, checkPtrStruct(src))
    ELSE LET r == reflected(src)
             l == patchLoop(order, r.validCols, 1,
                            [err |-> "nil", cols |-> <<>>, args |-> <<>>])
         IN  IF r.pkCol = "" THEN Refused(t, "ErrPrimaryKeyNotFound")
             ELSE IF l.err # "nil" THEN Refused(t, l.err)
             ELSE ExecContext(t, flavored(t, updateQuery(src, l.cols, r.pkCol)),
                              Append(l.args, r.pkVal), fails)

\* Update(src)
Update(t, src, fails) ==
    IF checkPtrStruct(src) # "nil" THEN Refused(t, checkPtrStruct(src))
    ELSE LET r == reflected(src)
         IN  IF r.pkCol = "" THEN Refused(t, "ErrPrimaryKeyNotFound")
             ELSE ExecContext(t, flavored(t, updateQuery(src, r.cols, r.pkCol)),
                              Append(r.args, r.pkVal), fails)

\* BulkInsert, the columns and field indexes taken from the first record
insertable(fs) ==
    {i \in 1..Len(fs) : ~skipped(fs[i]) /\ ~Contains(fs[i].sql, "primaryKey")}

RECURSIVE Ascending(_)
Ascending(S) ==
    IF S = {} THEN <<>> ELSE <<MinOf(S)>> \o Ascending(S \ {MinOf(S)})

RECURSIVE bulkLoop(_, _, _, _)
\* for _, model := range models; v.Field(idx) panics when the member's type
\* has fewer fields than the first record's
bulkLoop(models, idxs, i, acc) ==
    IF i > Len(models) THEN acc
    ELSE IF checkPtrStruct(models[i]) # "nil"
    THEN [acc EXCEPT !.err = checkPtrStruct(models[i])]
    ELSE LET fs == StructFields(models[i].type)
         IN  IF \E k \in 1..Len(idxs) : idxs[k] > Len(fs)
             THEN [acc EXCEPT !.err = "panic"]
             ELSE bulkLoop(models, idxs, i + 1,
                      [err |-> "nil",
                       rows |-> Append(acc.rows,
                           "(" \o JoinStr([k \in 1..Len(idxs) |-> "?"], ", ") \o ")"),
                       args |-> acc.args \o
                           [k \in 1..Len(idxs) |-> fieldValue(models[i], fs[idxs[k]])]])

BulkInsert(t, models, fails) ==
    IF Len(models) = 0 THEN Refused(t, "nil")
    ELSE IF checkPtrStruct(models[1]) # "nil" THEN Refused(t, checkPtrStruct(models[1]))
    ELSE LET fs   == StructFields(models[1].type)
             idxs == Ascending(insertable(fs))
             cols == [k \in 1..Len(idxs) |-> columnOf(fs[idxs[k]]).col]
             l    == bulkLoop(models, idxs, 1,
                              [err |-> "nil", rows |-> <<>>, args |-> <<>>])
         IN  IF Len(cols) = 0 THEN Refused(t, "ErrNoInsertableFields")
             ELSE IF l.err # "nil" THEN Refused(t, l.err)
             ELSE ExecContext(t,
                      flavored(t, "INSERT INTO " \o MutationTable(models[1].type)
                                   \o " (" \o JoinStr(cols, ", ") \o ") VALUES "
                                   \o JoinStr(l.rows, ", ")),
                      l.args, fails)

\* the arguments of the workload
SrcInputs ==
    {Src("ptr", ty, "a") : ty \in MutationTypes}
        \cup {Src("ptr", "Account", "b"), Src("nilptr", "Account", ""),
              Src("nil", "", ""), Src("value", "Account", "a"),
              Src("ptrNonStruct", "IDs", "")}

Entry(col, v) == [col |-> col, v |-> v]

\* field maps, as sets of entries
FieldMaps ==
    {{}, {Entry("full_name", "Ann")}, {Entry("id", "7")},
     {Entry("full_name", "Ann"), Entry("created_at", "now")},
     {Entry("bogus", "x")}, {Entry("full_name", "Ann"), Entry("bogus", "x")},
     {Entry("secret", "s")}, {Entry("hidden", "h")}, {Entry("note", "n")},
     {Entry("FullName", "Ann")}}

\* the orders a map can be iterated in
Orders(S) ==
    {o \in [1..Cardinality(S) -> S] : \A i, j \in 1..Cardinality(S) : o[i] = o[j] => i = j}

Batches ==
    {<<>>} \cup {<<a>> : a \in SrcInputs}
           \cup {<<a, b>> : a \in {Src("ptr", "Account", "a"), Src("ptr", "Audit", "a")},
                            b \in SrcInputs}

MaxMutations == 2

MutationCall(op, src, fields, models) ==
    [op |-> op, src |-> src, fields |-> fields, models |-> models]

NoSrc == Src("nil", "", "")

InitMutation ==
    /\ \E d \in DriverTypes : tx = [NoTx EXCEPT !.flavor = detectFlavor(d)]
    /\ Idle
    /\ verdict = NoVerdict /\ cache = NoCache /\ procs = <<>>

Mutate(t, call) ==
    /\ tx.calls < MaxMutations
    /\ tx' = [t EXCEPT !.call = call, !.calls = tx.calls + 1]
    /\ UNCHANGED <<builderVars, verdict, cache, procs>>

DoPatch ==
    \E src \in SrcInputs, fields \in FieldMaps, fails \in BOOLEAN :
        \E order \in Orders(fields) :
            Mutate(Patch(tx, src, order, fails), MutationCall("Patch", src, fields, <<>>))

DoUpdate ==
    \E src \in SrcInputs, fails \in BOOLEAN :
        Mutate(Update(tx, src, fails), MutationCall("Update", src, {}, <<>>))

DoBulkInsert ==
    \E models \in Batches, fails \in BOOLEAN :
        Mutate(BulkInsert(tx, models, fails), MutationCall("BulkInsert", NoSrc, {}, models))

NextMutation == DoPatch \/ DoUpdate \/ DoBulkInsert

SpecMutation == InitMutation /\ [][NextMutation]_vars

\* the record has no field the reflection recognises as the primary key
NoPrimaryKey(src) == src.shape = "ptr" /\ reflected(src).pkCol = ""

\* some key of the field map is not a column of the record
UnknownColumn(src, fields) ==
    src.shape = "ptr" /\ \E e \in fields : e.col \notin reflected(src).validCols

\* some member of the batch is nil or is not a record
BadMember(models) ==
    \E i \in 1..Len(models) : models[i].shape \in {"nilptr", "nil", "ptrNonStruct"}

\* the call the step made is one the mutation paths must refuse
MustRefuse(call) ==
    \/ call.op \in {"Patch", "Update"} /\ NoPrimaryKey(call.src)
    \/ call.op = "Patch" /\ UnknownColumn(call.src, call.fields)
    \/ call.op = "BulkInsert" /\ BadMember(call.models)

\* C25: Patch and Update of a record with no primary key, Patch with a key
\* that is not a column, and BulkInsert with a nil or non-record member
\* return an error and send no statement
C25_RefusedBeforeSend ==
    [][(tx'.calls # tx.calls /\ MustRefuse(tx'.call))
           => (tx'.err \notin {"nil", "ErrExec"} /\ tx'.log = tx.log)]_vars

\* after one statement went out, a Patch whose second key is unknown has been
\* refused with the log as it was
C25_Witness ==
    /\ tx.call.op = "Patch" /\ tx.call.src = Src("ptr", "Account", "a")
    /\ tx.call.fields = {Entry("full_name", "Ann"), Entry("bogus", "x")}
    /\ tx.err = "ErrInvalidColumn"
    /\ Len(tx.log) = 1

(***************************************************************************)
(* the field-map cache: two sync.Maps keyed by record type, one per tag    *)
(* family, read and filled by the Cached*AllowedFields functions and       *)
(* emptied by ClearFieldMapCache, all callable from any goroutine. Every   *)
(* Load, Store and Delete of a sync.Map is one atomic step.                *)
(***************************************************************************)
columnTagPrefix == "column:"

RECURSIVE ToLowerFrom(_, _)
ToLowerFrom(s, i) ==
    IF i > Len(s) THEN "" ELSE LowerChar(At(s, i)) \o ToLowerFrom(s, i + 1)

ToLower(s) == ToLowerFrom(s, 1)

\* a reflect.StructField with its json, gorm and sql tags
TaggedField(name, json, gorm, sql) ==
    [name |-> name, json |-> json, gorm |-> gorm, sql |-> sql]

CachedTypes == {"User", "Order"}

TaggedFields(type) ==
    CASE type = "User" ->
             <<TaggedField("ID", "id", "column:id;primaryKey", "column:user_id"),
               TaggedField("Name", "name,omitempty", "size:64;column:name", ""),
               TaggedField("Secret", "-", "column:secret", "column:secret"),
               TaggedField("Age", "", "column:age", "column:bad-name"),
               TaggedField("Alias", "name", "", "column:alias")>>
      [] type = "Order" ->
             <<TaggedField("ID", "id", "column:order_id", "column:id"),
               TaggedField("Total", ",string", "column:total", "type:int")>>

\* field.Tag.Get(tagName)
TagGet(f, tagName) == IF tagName = "gorm" THEN f.gorm ELSE f.sql

extractFieldInfo(field) ==
    IF field.json = "-" THEN [jsonName |-> "", shouldSkip |-> TRUE]
    ELSE IF field.json = "" THEN [jsonName |-> ToLower(field.name), shouldSkip |-> FALSE]
    ELSE LET name == Split(field.json, ",")[1]
         IN  [jsonName |-> IF name = "" THEN ToLower(field.name) ELSE name,
              shouldSkip |-> FALSE]

extractColumnFromTag(tag, prefix) ==
    IF tag = "" THEN ""
    ELSE LET parts == Split(tag, ";")
             hit   == FirstWithPrefix(parts, prefix, 1)
         IN  IF hit > 0 THEN TrimPrefix(parts[hit], prefix) ELSE ""

extractFieldMapping(field, tagName) ==
    IF extractFieldInfo(field).shouldSkip THEN [jsonName |-> "", columnName |-> ""]
    ELSE [jsonName |-> extractFieldInfo(field).jsonName,
          columnName |-> extractColumnFromTag(TagGet(field, tagName), columnTagPrefix)]

isValidColumnName(columnName) == columnNamePattern(columnName)

\* m[k] = v on a map held as a set of entries
MapPut(m, k, v) == {e \in m : e.k # k} \cup {[k |-> k, v |-> v]}

RECURSIVE extractLoop(_, _, _, _)
extractLoop(fs, tagName, i, fields) ==
    IF i > Len(fs) THEN fields
    ELSE LET fm == extractFieldMapping(fs[i], tagName)
         IN  extractLoop(fs, tagName, i + 1,
                 IF fm.columnName # "" /\ isValidColumnName(fm.columnName)
                 THEN MapPut(fields, fm.jsonName, fm.columnName)
                 ELSE fields)

\* extractAllowedFields(model, tagName); t is the record type of model, the
\* pointer taken off
extractAllowedFields(t, tagName) == extractLoop(TaggedFields(t), tagName, 1, {})

DefaultGormTablerAllowedFields(t) == extractAllowedFields(t, "gorm")

DefaultSqlTablerAllowedFields(t) == extractAllowedFields(t, "sql")

\* one map for both tag families
sharedCacheOf(op) == "gorm"

\* the sync.Map a Cached* function works on
cacheOf(op) == IF op = "CachedGorm" THEN "gorm" ELSE "sql"

\* the uncached function a Cached* function falls back to
DefaultOf(op, t) ==
    IF op = "CachedGorm" THEN DefaultGormTablerAllowedFields(t)
    ELSE DefaultSqlTablerAllowedFields(t)

\* sync.Map Load, Store, Delete and the keys present
MapLoad(c, t) ==
    IF \E e \in c : e.k = t
    THEN [ok |-> TRUE, v |-> (CHOOSE e \in c : e.k = t).v]
    ELSE [ok |-> FALSE, v |-> {}]

MapStore(c, t, v) == MapPut(c, t, v)

MapDelete(c, t) == {e \in c : e.k # t}

Keys(c) == {e.k : e \in c}

MaxGoroutines == 3

MaxCachedCalls == 2

CacheOps == {"CachedGorm", "CachedSql", "Clear"}

\* a goroutine: the call it is in and where, the locals of the call (fields,
\* the keys a Range has visited and those it must visit), what the call
\* returned, and how many calls it has made
Goroutine ==
    [op |-> "none", t |-> "", pc |-> "idle", fields |-> {}, seen |-> {},
     must |-> {}, ret |-> {}, calls |-> 0]

InitCache ==
    /\ procs = [i \in 1..MaxGoroutines |-> Goroutine]
    /\ cache = NoCache
    /\ Idle
    /\ verdict = NoVerdict /\ tx = NoTx

CacheStep(i, g, c) ==
    /\ procs' = [procs EXCEPT ![i] = g]
    /\ cache' = c
    /\ UNCHANGED <<builderVars, verdict, tx>>

\* a goroutine enters one of the three functions
DoCall(i) ==
    /\ procs[i].pc \in {"idle", "done"}
    /\ procs[i].calls < MaxCachedCalls
    /\ \E op \in CacheOps, t \in CachedTypes :
           /\ op = "Clear" => t = "User"
           /\ CacheStep(i,
                  [Goroutine EXCEPT !.op = op,
                                    !.t = IF op = "Clear" THEN "" ELSE t,
                                    !.pc = IF op = "Clear" THEN "rangeGorm" ELSE "load",
                                    !.must = IF op = "Clear" THEN Keys(cache.gorm) ELSE {},
                                    !.calls = procs[i].calls + 1],
                  cache)

\* if cached, ok := cache.MapLoad(t); ok { return cached }
DoLoad(i) ==
    /\ procs[i].pc = "load"
    /\ LET l == MapLoad(cache[cacheOf(procs[i].op)], procs[i].t)
       IN  CacheStep(i,
               IF l.ok THEN [procs[i] EXCEPT !.pc = "done", !.ret = l.v]
               ELSE [procs[i] EXCEPT !.pc = "store",
                                     !.fields = DefaultOf(procs[i].op, procs[i].t)],
               cache)

\* cache.MapStore(t, fields); return fields
DoStore(i) ==
    /\ procs[i].pc = "store"
    /\ CacheStep(i,
           [procs[i] EXCEPT !.pc = "done", !.ret = procs[i].fields, !.fields = {}],
           [cache EXCEPT ![cacheOf(procs[i].op)] = MapStore(@, procs[i].t, procs[i].fields)])

RangeOf(pc) == IF pc = "rangeGorm" THEN "gorm" ELSE "sql"

\* Range calls the function on a key it has not visited: one that was there
\* when the Range began, or one that is there now; the function deletes it
DoVisit(i) ==
    /\ procs[i].pc \in {"rangeGorm", "rangeSql"}
    /\ \E k \in (procs[i].must \cup Keys(cache[RangeOf(procs[i].pc)])) \ procs[i].seen :
           CacheStep(i,
               [procs[i] EXCEPT !.seen = @ \cup {k}],
               [cache EXCEPT ![RangeOf(procs[i].pc)] = MapDelete(@, k)])

\* the Range ends once every key that was there throughout has been visited
DoEndRange(i) ==
    /\ procs[i].pc \in {"rangeGorm", "rangeSql"}
    /\ procs[i].must \subseteq procs[i].seen
    /\ CacheStep(i,
           IF procs[i].pc = "rangeGorm"
           THEN [procs[i] EXCEPT !.pc = "rangeSql", !.seen = {}, !.must = Keys(cache.sql)]
           ELSE [procs[i] EXCEPT !.pc = "done", !.seen = {}, !.must = {}],
           cache)

NextCache ==
    \E i \in 1..MaxGoroutines :
        DoCall(i) \/ DoLoad(i) \/ DoStore(i) \/ DoVisit(i) \/ DoEndRange(i)

SpecCache == InitCache /\ [][NextCache]_vars

\* goroutine i has returned from a Cached* call
Returned(i) == procs[i].pc = "done" /\ procs[i].op \in {"CachedGorm", "CachedSql"}

\* C24: whatever the interleaving of the two Cached* functions and
\* ClearFieldMapCache, a Cached* call returns the mapping the uncached
\* function computes for the same type and tag family
C24_CachedEqualsDefault ==
    \A i \in DOMAIN procs :
        Returned(i) => procs[i].ret = DefaultOf(procs[i].op, procs[i].t)

\* one goroutine was served from the cache, another had to compute the same
\* mapping again, and a clear has run to its end in between
C24_Witness ==
    /\ Returned(1) /\ Returned(2)
    /\ procs[1].op = "CachedSql" /\ procs[1].t = "User" /\ procs[1].calls = 2
    /\ procs[2].op = "CachedSql" /\ procs[2].t = "User"
    /\ procs[3].op = "Clear" /\ procs[3].pc = "done"
    /\ procs[1].ret = {[k |-> "id", v |-> "user_id"], [k |-> "name", v |-> "alias"]}
    /\ procs[2].ret = procs[1].ret
    /\ cache.sql = {} /\ cache.gorm # {}

====
